---- MODULE Spec2Model ----
(***************************************************************************)
(* The task-attempt lifecycle engine of vibe-kanban, as a state machine.   *)
(*                                                                         *)
(* The request handlers of backend/src/routes/task_attempts.rs run as      *)
(* concurrent requests; each handler is cut at its await points (a store   *)
(* call, a supervisor call), so that the steps of two requests and of the  *)
(* process supervisor interleave.  The store, the supervisor and the       *)
(* TaskAttempt model methods that the handlers call follow sections 4.1,   *)
(* 4.2, 4.4 and 4.5 of the specification.                                  *)
(***************************************************************************)
EXTENDS Integers, Sequences, FiniteSets, TLC

VARIABLES
    tasks,      \* sequence of task rows, index = task id          (table task)
    attempts,   \* sequence of attempt rows, index = attempt id (table task_attempt)
    procs,      \* sequence of process rows, index = process id (table execution_process)
    handles,    \* process ids with a live kill handle          (supervisor registry)
    exited,     \* process id -> exit status not yet written to the store ("none": nothing pending)
    reqs,       \* request slot -> the handler invocation running in it
    output,     \* process id -> [executor_type, stdout, stderr] (columns of execution_process)
    bg          \* attempt id -> the background execution that create spawned for it

vars == <<tasks, attempts, procs, handles, exited, reqs, output, bg>>

(***************************************************************************)
(* Bounds of the model.                                                    *)
(***************************************************************************)
NumReqs == 2        \* request slots; each slot serves one request
MaxProcs == 4       \* rows of execution_process
MaxAttempts == 3    \* rows of task_attempt
MaxTime == 2        \* timestamps and clock readings are 1..MaxTime
MaxStderr == 3      \* pieces of persisted stderr: characters and markers
MaxChars == 5       \* characters of persisted stderr written freely
MaxOutput == 4      \* characters a shell command writes to its stdout

\* A boundary marker lies between two chunks of at least one character.
MaxChunks ==
    IF (MaxStderr + 1) \div 2 > (MaxChars + 3) \div 4
    THEN (MaxStderr + 1) \div 2 ELSE (MaxChars + 3) \div 4

Slots == 1..NumReqs
TaskIds == {1, 2}

Terminal == {"Completed", "Failed", "Killed"}

ProcIds == 1..Len(procs)
AttemptIds == 1..Len(attempts)

(***************************************************************************)
(* The store (section 4.1).                                                *)
(***************************************************************************)

\* TaskAttempt::exists_for_task: the attempt exists, belongs to the task, and
\* the task belongs to the project.
ExistsForTask(a, t, p) ==
    /\ a \in AttemptIds
    /\ attempts[a].task = t
    /\ t \in DOMAIN tasks
    /\ tasks[t].project = p

RECURSIVE SelectIds(_, _)
\* The ids of S in ascending order, as a sequence.
SelectIds(S, n) ==
    IF n = 0 THEN <<>>
    ELSE IF n \in S THEN Append(SelectIds(S, n - 1), n)
    ELSE SelectIds(S, n - 1)

\* ExecutionProcess::find_by_task_attempt_id: the rows of an attempt in
\* creation order.
RECURSIVE Reverse(_)
Reverse(seq) == IF seq = <<>> THEN <<>> ELSE Append(Reverse(Tail(seq)), Head(seq))

\* A listing that gives the newest process first.
FindByTaskAttemptIdNewestFirst(a) ==
    Reverse(SelectIds({p \in ProcIds : procs[p].attempt = a}, Len(procs)))

FindByTaskAttemptId(a) ==
    SelectIds({p \in ProcIds : procs[p].attempt = a}, Len(procs))

\* The Running dev servers of every project.
RunningDevServersAnywhere(p) ==
    {d \in ProcIds : procs[d].ptype = "DevServer" /\ procs[d].status = "Running"}

RunningDevServers(p) ==
    {d \in ProcIds : /\ procs[d].ptype = "DevServer"
                     /\ procs[d].status = "Running"
                     /\ tasks[attempts[procs[d].attempt].task].project = p}

\* ExecutionProcess::find_running_dev_servers_by_project.
FindRunningDevServersByProject(p) == SelectIds(RunningDevServers(p), Len(procs))

\* A store whose update_completion overwrites whatever status the row holds.
UpdateCompletionOverwrites(ps, id, status) ==
    [ps EXCEPT ![id].status = status]

\* ExecutionProcess::update_completion: refuses to leave a terminal status.
UpdateCompletion(ps, id, status) ==
    IF ps[id].status = "Running" THEN [ps EXCEPT ![id].status = status] ELSE ps

(***************************************************************************)
(* The process supervisor (section 4.4).                                   *)
(***************************************************************************)

\* The outcomes app_state.stop_running_execution_by_id(id) can have:
\* Ok(true) when a live handle was found and the signal delivered, Ok(false)
\* when there is no live handle, Err when the signal could not be delivered.
KillOutcomes(id) ==
    IF id \in handles THEN {"true", "err"} ELSE {"false"}

\* A registry that keeps the handle of a process it has killed.
HandlesAfterKillKept(id, outcome) == handles

\* The registry after the call: a delivered kill ends the process and
\* de-registers its handle.
HandlesAfterKill(id, outcome) ==
    IF outcome = "true" THEN handles \ {id} ELSE handles

\* Spawn: a Running row and a kill handle keyed by its id.
SpawnRow(a, ptype) == [attempt |-> a, ptype |-> ptype, status |-> "Running"]

ProcsAfterSpawn(a, ptype) == Append(procs, SpawnRow(a, ptype))

HandlesAfterSpawn == handles \cup {Len(procs) + 1}

(***************************************************************************)
(* Requests.                                                               *)
(***************************************************************************)
IdleReq ==
    [kind |-> "none", pc |-> "idle", project |-> 0, task |-> 0, attempt |-> 0,
     proc |-> 0, list |-> <<>>, i |-> 0, stopped_count |-> 0, errors |-> 0,
     resp |-> "none", actual |-> 0, created |-> FALSE,
     \* history of the call, kept for the properties
     before |-> {}, overlap |-> FALSE, killTrue |-> 0, killFalse |-> 0,
     killErr |-> 0, updErr |-> 0, nproc |-> 0, again |-> FALSE, wrote |-> FALSE,
     kept |-> "none",
     stateAtCall |-> "none", wtAtCall |-> "none", merged |-> FALSE,
     statusSet |-> FALSE, storeFailed |-> FALSE,
     \* approve_plan: current_task.title and plan_content; the data of a read
     title |-> <<>>, plan |-> <<>>, data |-> <<>>,
     \* get_logs: the clock readings of its normalizations (history)
     nows |-> <<>>,
     \* the request body, the configuration read, the attempt's columns read
     input |-> <<>>, config |-> <<>>, base_branch |-> <<>>, path |-> <<>>,
     \* the message of the envelope; what was handed to a service or spawned,
     \* and the error it gave (history)
     message |-> <<>>, called |-> <<>>, error |-> <<>>,
     \* the processes whose kill answered true (history)
     killed |-> {}]

\* The (project, task, attempt) triples requests are made with: every attempt
\* under its own task and project, and two mismatched triples.
PathArgs ==
    {<<tasks[attempts[a].task].project, attempts[a].task, a>> : a \in AttemptIds}
        \cup {<<2, 1, 1>>, <<1, 2, 1>>}


Active(r) == r.pc \notin {"idle", "done"}

\* The handler returns: its locals are dropped, its response kept.
Respond(r, resp) ==
    [r EXCEPT !.pc = "done", !.resp = resp, !.list = <<>>, !.i = 0, !.before = {}]

(***************************************************************************)
(* The coordinator's view of an attempt (section 4.5).                     *)
(***************************************************************************)
RunningOf(a, ptype) ==
    \E p \in ProcIds : /\ procs[p].attempt = a
                       /\ procs[p].ptype = ptype
                       /\ procs[p].status = "Running"

MainProcs(a) == {p \in ProcIds : procs[p].attempt = a /\ procs[p].ptype # "DevServer"}

Newest(S) == CHOOSE p \in S : \A q \in S : q <= p

\* The state of the section 4.5 diagram an attempt is in, derived from its
\* processes and its merge marker; a dev server lives independently.
AttemptState(a) ==
    IF RunningOf(a, "SetupScript") THEN "SetupRunning"
    ELSE IF RunningOf(a, "CodingAgent") THEN "MainRunning"
    ELSE IF RunningOf(a, "Followup") THEN "FollowupRunning"
    ELSE IF attempts[a].merged THEN "Merged"
    ELSE IF MainProcs(a) = {} THEN "New"
    ELSE LET q == procs[Newest(MainProcs(a))] IN
         IF q.status = "Killed" THEN "Stopped"
         ELSE IF q.ptype = "SetupScript"
              THEN (IF q.status = "Failed" THEN "SetupFailed" ELSE "Provisioning")
         ELSE IF q.ptype = "CodingAgent" /\ q.status = "Failed" THEN "MainFailed"
         ELSE "Idle"

(***************************************************************************)
(* Initial state: two attempts of two tasks of project 1 have been created *)
(* and provisioned; the first runs its coding agent, the second its setup  *)
(* script or its coding agent.                                             *)
(***************************************************************************)
\* A task row; Task::create inserts it with status Todo.
TaskRow(project, title, description, parent_task_attempt) ==
    [project |-> project, title |-> title, description |-> description,
     parent_task_attempt |-> parent_task_attempt, status |-> "Todo"]

\* The output columns of a process that has written nothing.
NoOutput == [executor_type |-> "claude", stdout |-> <<>>, stderr |-> <<>>]

\* No background execution is pending for an attempt.
NoExecution == [stage |-> "none", setup |-> FALSE, proc |-> 0]

InitRows ==
    /\ tasks = [t \in TaskIds |->
                  [TaskRow(1, <<"title", t>>, <<>>, 0) EXCEPT !.status = "InProgress"]]
    /\ attempts = <<[task |-> 1, parent |-> 0, wt |-> "present", merged |-> FALSE,
                     base_branch |-> "main"],
                    [task |-> 2, parent |-> 0, wt |-> "present", merged |-> FALSE,
                     base_branch |-> "main"]>>
    /\ \E ptype \in {"SetupScript", "CodingAgent"} :
          procs = <<SpawnRow(1, "CodingAgent"), SpawnRow(2, ptype)>>
    /\ handles = {1, 2}
    /\ exited = [p \in 1..MaxProcs |-> "none"]
    /\ reqs = [s \in Slots |-> IdleReq]
    /\ bg = [a \in 1..MaxAttempts |-> NoExecution]

Init ==
    /\ InitRows
    /\ output = [p \in 1..MaxProcs |-> NoOutput]

(***************************************************************************)
(* The environment: processes exit, the supervisor reports the exit, a     *)
(* worktree is deleted behind the system's back.                           *)
(***************************************************************************)

\* A child process exits on its own; the supervisor sees it and de-registers
\* its handle.
ProcessExits(p, status) ==
    /\ p \in handles
    /\ handles' = handles \ {p}
    /\ exited' = [exited EXCEPT ![p] = status]
    /\ UNCHANGED <<tasks, attempts, procs, reqs, output, bg>>

\* The supervisor records the exit: its one call of update_completion.
SupervisorReports(p) ==
    /\ p \in ProcIds
    /\ exited[p] # "none"
    /\ procs' = UpdateCompletion(procs, p, exited[p])
    /\ exited' = [exited EXCEPT ![p] = "none"]
    /\ UNCHANGED <<tasks, attempts, handles, reqs, output, bg>>

\* The worktree directory is deleted externally, with ("irrecoverable") or
\* without ("missing") its branch.
WorktreeLost(a, how) ==
    /\ a \in AttemptIds
    /\ attempts[a].wt = "present"
    /\ attempts' = [attempts EXCEPT ![a].wt = how]
    /\ UNCHANGED <<tasks, procs, handles, exited, reqs, output, bg>>

(***************************************************************************)
(* A request arrives: the route's handler starts and validates its path.   *)
(***************************************************************************)
FirstPc(kind) ==
    CASE kind = "stop_all" -> "enum"
      [] kind = "dev" -> "enum"
      [] kind = "stop" -> "kill"
      [] kind = "followup" -> "run"
      [] kind = "merge" -> "merge"
      [] kind = "approve" -> "task"
      [] kind = "children" -> "find"
      [] kind = "details" -> "find"
      [] kind = "logs" -> "enum"
      [] kind = "create" -> "insert"
      [] kind = "rebase" -> "rebase"
      [] kind = "pr" -> "config"
      [] kind = "editor" -> "attempt"
      [] kind = "process" -> "process"

Kinds == {"stop_all", "dev", "stop", "followup", "merge",
          "approve", "children", "details", "logs", "create",
          "rebase", "pr", "editor", "process"}

\* The path parameters a route takes: create has no attempt id, details has
\* nothing but the attempt id, get_execution_process the project (and the
\* process id).
Path(kind, args) ==
    CASE kind = "create" -> <<args[1], args[2], 0>>
      [] kind = "details" -> <<0, 0, args[3]>>
      [] kind = "process" -> <<args[1], 0, 0>>
      [] OTHER -> args

\* A lookup of the task that does not compare its project.
TaskInAnyProject(t, p) == t \in DOMAIN tasks

\* Task::exists and Task::find_by_id_and_project_id: the task is the project's.
TaskInProject(t, p) == t \in DOMAIN tasks /\ tasks[t].project = p

\* What the call finds Running when it begins (kept for the properties).
RunningBefore(kind, p, a) ==
    CASE kind = "stop_all" ->
            {q \in ProcIds : procs[q].attempt = a /\ procs[q].status = "Running"}
      [] kind = "dev" -> RunningDevServers(p)
      [] OTHER -> {}

\* A lookup that does not compare the process's attempt.
ProcessOfAnyAttempt(id, a) == id \in ProcIds

\* stop_execution_process, lines 877-886: the process exists and is the
\* attempt's.
ProcessOfAttempt(id, a) == id \in ProcIds /\ procs[id].attempt = a

\* What a handler checks of its path before it does anything else:
\* get_task_attempt_children (lines 1328-1335) and create_task_attempt (lines
\* 254-261) look the task up in the project, get_task_attempt_details (line
\* 1309) and get_execution_process (line 734) check nothing, the others
\* call exists_for_task or load_context.
Validated(kind, p, t, a, id) ==
    CASE kind \in {"children", "create"} -> TaskInProject(t, p)
      [] kind \in {"details", "process"} -> TRUE
      [] kind = "stop" -> ExistsForTask(a, t, p) /\ ProcessOfAttempt(id, a)
      [] OTHER -> ExistsForTask(a, t, p)

\* The status a handler answers when that check itself fails:
\* get_task_attempt_all_logs (lines 189-194) maps every error to NOT_FOUND.
ValidationFailure(kind) ==
    IF kind = "logs" THEN "NOT_FOUND" ELSE "INTERNAL_SERVER_ERROR"

\* Every handler's first lines: exists_for_task answers false (NOT_FOUND),
\* fails (INTERNAL_SERVER_ERROR), or the handler goes on.
Begin(s, kind, p, t, a, id, dbOk) ==
    /\ reqs[s].pc = "idle"
    /\ \A s2 \in Slots : s2 < s => reqs[s2].pc # "idle"
    /\ LET r0 == [IdleReq EXCEPT !.kind = kind, !.project = p, !.task = t,
                                 !.attempt = a, !.proc = id, !.storeFailed = ~dbOk]
           valid == Validated(kind, p, t, a, id)
           r1 == [r0 EXCEPT
                    !.pc = FirstPc(kind),
                    !.before = RunningBefore(kind, p, a),
                    !.overlap = /\ kind = "dev"
                                /\ \E s2 \in Slots : reqs[s2].kind = "dev" /\ Active(reqs[s2]),
                    !.nproc = Len(procs),
                    !.again = /\ kind = "stop_all"
                              /\ \E s2 \in Slots :
                                    /\ reqs[s2].kind = "stop_all"
                                    /\ reqs[s2].pc = "done"
                                    /\ reqs[s2].resp = "success"
                                    /\ reqs[s2].attempt = a
                                    /\ reqs[s2].nproc = Len(procs)]
       IN reqs' = [s2 \in Slots |->
                      IF s2 = s
                      THEN (IF ~dbOk THEN Respond(r0, ValidationFailure(kind))
                            ELSE IF valid THEN r1
                            ELSE Respond(r0, "NOT_FOUND"))
                      ELSE IF dbOk /\ valid /\ kind = "dev" /\ reqs[s2].kind = "dev" /\ Active(reqs[s2])
                           THEN [reqs[s2] EXCEPT !.overlap = TRUE]
                           ELSE reqs[s2]]
    /\ UNCHANGED <<tasks, attempts, procs, handles, exited, output, bg>>

(***************************************************************************)
(* stop_all_execution_processes, lines 770-860.                            *)
(***************************************************************************)

\* A handler that answers failure when it stopped nothing.
StopAllRespondNeedsStopped(r) ==
    Respond(r, IF r.errors # 0 \/ r.stopped_count = 0 THEN "failure" ELSE "success")

\* Lines 832-859: the envelope, from the errors collected.
StopAllRespond(r) ==
    Respond(r, IF r.errors # 0 THEN "failure" ELSE "success")

\* The loop moves to the next process, or ends.
StopAllNext(r) ==
    IF r.i < Len(r.list) THEN [r EXCEPT !.i = r.i + 1, !.pc = "kill"]
    ELSE StopAllRespond(r)

\* A handler that takes "was not running" for a stopped process.
StopAllAfterKillCountsAll(r, outcome) ==
    CASE outcome = "true" -> [r EXCEPT !.stopped_count = r.stopped_count + 1, !.pc = "upd"]
      [] outcome = "false" -> StopAllNext([r EXCEPT !.stopped_count = r.stopped_count + 1])
      [] outcome = "err" -> StopAllNext([r EXCEPT !.errors = r.errors + 1])

\* Lines 803-829: the match on stop_running_execution_by_id's result.
StopAllAfterKill(r, outcome) ==
    CASE outcome = "true" -> [r EXCEPT !.stopped_count = r.stopped_count + 1, !.pc = "upd"]
      [] outcome = "false" -> StopAllNext(r)
      [] outcome = "err" -> StopAllNext([r EXCEPT !.errors = r.errors + 1])

\* Lines 808-820: the result of update_completion.
StopAllAfterUpdate(r, ok) ==
    StopAllNext(IF ok THEN r ELSE [r EXCEPT !.errors = r.errors + 1])

\* The outcome of one kill call, noted in the call's history.
NoteKill(r, id, outcome) ==
    CASE outcome = "true" -> [r EXCEPT !.killTrue = r.killTrue + 1,
                                       !.killed = r.killed \cup {id}]
      [] outcome = "false" -> [r EXCEPT !.killFalse = r.killFalse + 1]
      [] outcome = "err" -> [r EXCEPT !.killErr = r.killErr + 1]

\* The outcome of one update_completion(id, Killed) call: whether it failed,
\* whether it changed the row, and the terminal status it found and kept.
NoteUpdate(r, ok, id) ==
    [r EXCEPT !.updErr = IF ok THEN r.updErr ELSE r.updErr + 1,
              !.wrote = r.wrote \/ (ok /\ procs[id].status = "Running"),
              !.kept = IF ok /\ procs[id].status \in Terminal
                       THEN procs[id].status ELSE r.kept]

\* Lines 784-796: the attempt's processes are listed (or the store fails).
StopAllEnum(s, dbOk) ==
    LET r == reqs[s] IN
    /\ r.kind = "stop_all" /\ r.pc = "enum"
    /\ reqs' = [reqs EXCEPT ![s] =
                  IF dbOk
                  THEN StopAllNext([r EXCEPT !.list = FindByTaskAttemptId(r.attempt)])
                  ELSE Respond(r, "INTERNAL_SERVER_ERROR")]
    /\ UNCHANGED <<tasks, attempts, procs, handles, exited, output, bg>>

StopAllKill(s, outcome) ==
    LET r == reqs[s]
        id == r.list[r.i] IN
    /\ r.kind = "stop_all" /\ r.pc = "kill"
    /\ outcome \in KillOutcomes(id)
    /\ handles' = HandlesAfterKill(id, outcome)
    /\ reqs' = [reqs EXCEPT ![s] = StopAllAfterKill(NoteKill(r, id, outcome), outcome)]
    /\ UNCHANGED <<tasks, attempts, procs, exited, output, bg>>

StopAllUpdate(s, ok) ==
    LET r == reqs[s]
        id == r.list[r.i]
        ps == IF ok THEN UpdateCompletion(procs, id, "Killed") ELSE procs IN
    /\ r.kind = "stop_all" /\ r.pc = "upd"
    /\ procs' = ps
    /\ reqs' = [reqs EXCEPT ![s] = StopAllAfterUpdate(NoteUpdate(r, ok, id), ok)]
    /\ UNCHANGED <<tasks, attempts, handles, exited, output, bg>>

(***************************************************************************)
(* stop_execution_process, lines 863-928.                                  *)
(***************************************************************************)

\* Lines 889-903: an error of the kill is an error status, "was not running"
\* a success.
StopAfterKill(r, outcome) ==
    CASE outcome = "true" -> [r EXCEPT !.stopped_count = 1, !.pc = "upd"]
      [] outcome = "false" -> Respond(r, "success")
      [] outcome = "err" -> Respond(r, "INTERNAL_SERVER_ERROR")

\* Lines 905-927.
StopAfterUpdate(r, ok) ==
    Respond(r, IF ok THEN "success" ELSE "INTERNAL_SERVER_ERROR")

StopKill(s, outcome) ==
    LET r == reqs[s] IN
    /\ r.kind = "stop" /\ r.pc = "kill"
    /\ outcome \in KillOutcomes(r.proc)
    /\ handles' = HandlesAfterKill(r.proc, outcome)
    /\ reqs' = [reqs EXCEPT ![s] = StopAfterKill(NoteKill(r, r.proc, outcome), outcome)]
    /\ UNCHANGED <<tasks, attempts, procs, exited, output, bg>>

StopUpdate(s, ok) ==
    LET r == reqs[s]
        ps == IF ok THEN UpdateCompletion(procs, r.proc, "Killed") ELSE procs IN
    /\ r.kind = "stop" /\ r.pc = "upd"
    /\ procs' = ps
    /\ reqs' = [reqs EXCEPT ![s] = StopAfterUpdate(NoteUpdate(r, ok, r.proc), ok)]
    /\ UNCHANGED <<tasks, attempts, handles, exited, output, bg>>

(***************************************************************************)
(* start_dev_server, lines 1040-1127.                                      *)
(***************************************************************************)

\* The loop over the enumerated dev servers moves on, or ends and the new
\* dev server is started.
DevNext(r) ==
    IF r.i < Len(r.list) THEN [r EXCEPT !.i = r.i + 1, !.pc = "kill"]
    ELSE [r EXCEPT !.pc = "spawn"]

\* A loop that updates the row of a dev server only if it stopped it.
DevAfterKillOnlyStopped(r, outcome) ==
    IF outcome = "true" THEN [r EXCEPT !.pc = "upd"] ELSE DevNext(r)

\* Lines 1078-1096: an error of the kill is logged and the dev server left
\* alone; otherwise (stopped or not running) its row is updated.
DevAfterKill(r, outcome) ==
    IF outcome = "err" THEN DevNext(r) ELSE [r EXCEPT !.pc = "upd"]

\* Lines 1082-1095: a failed update is logged.
DevAfterUpdate(r, ok) == DevNext(r)

\* Lines 1109-1125: the envelope, from TaskAttempt::start_dev_server's result.
DevRespond(r, started) ==
    Respond(r, IF started THEN "success" ELSE "failure")

\* Lines 1054-1068.
DevEnum(s, dbOk) ==
    LET r == reqs[s] IN
    /\ r.kind = "dev" /\ r.pc = "enum"
    /\ reqs' = [reqs EXCEPT ![s] =
                  IF dbOk
                  THEN DevNext([r EXCEPT !.list = FindRunningDevServersByProject(r.project)])
                  ELSE Respond(r, "INTERNAL_SERVER_ERROR")]
    /\ UNCHANGED <<tasks, attempts, procs, handles, exited, output, bg>>

DevKill(s, outcome) ==
    LET r == reqs[s]
        id == r.list[r.i] IN
    /\ r.kind = "dev" /\ r.pc = "kill"
    /\ outcome \in KillOutcomes(id)
    /\ handles' = HandlesAfterKill(id, outcome)
    /\ reqs' = [reqs EXCEPT ![s] = DevAfterKill(NoteKill(r, id, outcome), outcome)]
    /\ UNCHANGED <<tasks, attempts, procs, exited, output, bg>>

DevUpdate(s, ok) ==
    LET r == reqs[s]
        id == r.list[r.i]
        ps == IF ok THEN UpdateCompletion(procs, id, "Killed") ELSE procs IN
    /\ r.kind = "dev" /\ r.pc = "upd"
    /\ procs' = ps
    /\ reqs' = [reqs EXCEPT ![s] = DevAfterUpdate(NoteUpdate(r, ok, id), ok)]
    /\ UNCHANGED <<tasks, attempts, handles, exited, output, bg>>

\* TaskAttempt::start_dev_server: the project's dev command is spawned in the
\* attempt's worktree as a DevServer process, or the spawn fails.
DevSpawn(s, started) ==
    LET r == reqs[s] IN
    /\ r.kind = "dev" /\ r.pc = "spawn"
    /\ IF started
       THEN /\ Len(procs) < MaxProcs
            /\ procs' = ProcsAfterSpawn(r.attempt, "DevServer")
            /\ handles' = HandlesAfterSpawn
       ELSE UNCHANGED <<procs, handles>>
    /\ reqs' = [reqs EXCEPT ![s] = DevRespond(r, started)]
    /\ UNCHANGED <<tasks, attempts, exited, output, bg>>

(***************************************************************************)
(* create_followup_attempt, lines 981-1038.                                *)
(***************************************************************************)

\* A handler that always reports a new attempt.
CreatedNewAttemptAlways(actual_attempt_id, attempt_id) == TRUE

\* Line 1009.
CreatedNewAttempt(actual_attempt_id, attempt_id) == actual_attempt_id # attempt_id

\* Lines 1008-1037: the response to start_followup_execution's result
\* (0: it failed).
FollowupRespond(r, actual_attempt_id) ==
    IF actual_attempt_id = 0 THEN Respond(r, "INTERNAL_SERVER_ERROR")
    ELSE Respond([r EXCEPT !.actual = actual_attempt_id,
                           !.created = CreatedNewAttempt(actual_attempt_id, r.attempt)],
                 "success")

\* A coordinator that takes a follow-up in any state.
FollowupAllowedAlways(a) == TRUE

\* Follow-up requires state Idle or MainFailed (section 4.5).
FollowupAllowed(a) == AttemptState(a) \in {"Idle", "MainFailed"}

\* TaskAttempt::start_followup_execution, its outcomes: "fail" (the state does
\* not allow a follow-up, or the launch failed), "same" (a Followup process
\* in the attempt's worktree, restored if its directory was missing), "fork"
\* (Restore failed: a new attempt whose parent is this one).
FollowupOutcomes(a) ==
    {"fail"} \cup
    (IF ~FollowupAllowed(a) THEN {}
     ELSE IF attempts[a].wt = "irrecoverable" THEN {"fork"}
     ELSE {"same"})

FollowupRun(s, outcome) ==
    LET r == reqs[s]
        a == r.attempt
        r1 == [r EXCEPT !.stateAtCall = AttemptState(a), !.wtAtCall = attempts[a].wt] IN
    /\ r.kind = "followup" /\ r.pc = "run"
    /\ outcome \in FollowupOutcomes(a)
    /\ CASE outcome = "fail" ->
              /\ reqs' = [reqs EXCEPT ![s] = FollowupRespond(r1, 0)]
              /\ UNCHANGED <<attempts, procs, handles>>
         [] outcome = "same" ->
              /\ Len(procs) < MaxProcs
              /\ attempts' = [attempts EXCEPT ![a].wt = "present"]
              /\ procs' = ProcsAfterSpawn(a, "Followup")
              /\ handles' = HandlesAfterSpawn
              /\ reqs' = [reqs EXCEPT ![s] = FollowupRespond(r1, a)]
         [] outcome = "fork" ->
              /\ Len(procs) < MaxProcs
              /\ Len(attempts) < MaxAttempts
              /\ attempts' = Append(attempts,
                                    [task |-> attempts[a].task, parent |-> a,
                                     wt |-> "present", merged |-> FALSE,
                                     base_branch |-> "main"])
              /\ procs' = ProcsAfterSpawn(Len(attempts) + 1, "Followup")
              /\ handles' = HandlesAfterSpawn
              /\ reqs' = [reqs EXCEPT ![s] = FollowupRespond(r1, Len(attempts) + 1)]
    /\ UNCHANGED <<tasks, exited, output, bg>>

(***************************************************************************)
(* merge_task_attempt, lines 340-396.                                      *)
(***************************************************************************)

\* A coordinator that merges in any state.
MergeAllowedAlways(a) == TRUE

\* Merge requires Idle (section 4.5).
MergeAllowed(a) == AttemptState(a) = "Idle"

\* TaskAttempt::merge_changes, its outcomes: the state does not allow the
\* merge or the merge conflicts (FALSE), or the branch is merged (TRUE).
MergeOutcomes(a) == {FALSE} \cup (IF MergeAllowed(a) THEN {TRUE} ELSE {})

\* A handler that goes on to mark the task Done whatever the merge returned.
MergeAfterMergeIgnoresResult(r, merged) == [r EXCEPT !.merged = merged, !.pc = "status"]

\* Lines 354-355 and 387-394: on Ok the task is to be marked Done, on Err the
\* envelope says so.
MergeAfterMerge(r, merged) ==
    IF merged THEN [r EXCEPT !.merged = TRUE, !.pc = "status"]
    ELSE Respond(r, "failure")

\* Lines 357-385: a failed status update is an error status.
MergeAfterStatus(r, ok) ==
    Respond(r, IF ok THEN "success" ELSE "INTERNAL_SERVER_ERROR")

\* Task::update_status.
UpdateStatus(ts, t, status) == [ts EXCEPT ![t].status = status]

MergeChanges(s, merged) ==
    LET r == reqs[s]
        a == r.attempt IN
    /\ r.kind = "merge" /\ r.pc = "merge"
    /\ merged \in MergeOutcomes(a)
    /\ attempts' = IF merged THEN [attempts EXCEPT ![a].merged = TRUE] ELSE attempts
    /\ reqs' = [reqs EXCEPT ![s] =
                  MergeAfterMerge([r EXCEPT !.stateAtCall = AttemptState(a)], merged)]
    /\ UNCHANGED <<tasks, procs, handles, exited, output, bg>>

MergeStatus(s, ok) ==
    LET r == reqs[s] IN
    /\ r.kind = "merge" /\ r.pc = "status"
    /\ tasks' = IF ok THEN UpdateStatus(tasks, r.task, "Done") ELSE tasks
    /\ reqs' = [reqs EXCEPT ![s] = MergeAfterStatus([r EXCEPT !.statusSet = ok], ok)]
    /\ UNCHANGED <<attempts, procs, handles, exited, output, bg>>

(***************************************************************************)
(* Persisted stdout and the executor's normalizer (section 4.3).  A line   *)
(* of stdout is the entry the executor's parser reads from it; a line of   *)
(* white space has entry_type "Whitespace", a line the parser fails on     *)
(* "Corrupt".  A timestamp is <<>> (None) or <<t>> (Some(t)).              *)
(***************************************************************************)
Line(entry_type, timestamp, content) ==
    [entry_type |-> entry_type, timestamp |-> timestamp, content |-> content]

\* !s.trim().is_empty(), of stdout.
HasText(text) == \E i \in 1..Len(text) : text[i].entry_type # "Whitespace"

IsEntry(l) == l.entry_type \notin {"Whitespace", "Corrupt"}

\* executor.normalize_logs(stdout, working_dir): the entries of the lines, or
\* an error.
ExecutorNormalizeLogs(stdout) ==
    [ok |-> \A i \in 1..Len(stdout) : stdout[i].entry_type # "Corrupt",
     entries |-> SelectSeq(stdout, IsEntry)]

(***************************************************************************)
(* normalize_process_logs, lines 63-181, and get_task_attempt_all_logs,    *)
(* lines 184-219.  Persisted stderr is a sequence of characters.  RFC 3339 *)
(* timestamps are compared as strings; the numbers 1..MaxTime stand for    *)
(* them in that order.                                                     *)
(***************************************************************************)
\* The marker: three characters that begin and end alike, as the text
\* ---STDERR_CHUNK_BOUNDARY--- does.
Boundary == <<"-", "X", "-">>

RECURSIVE TrimStart(_)
TrimStart(str) ==
    IF str # <<>> /\ Head(str) = " " THEN TrimStart(Tail(str)) ELSE str

RECURSIVE TrimEnd(_)
TrimEnd(str) ==
    IF str # <<>> /\ str[Len(str)] = " " THEN TrimEnd(SubSeq(str, 1, Len(str) - 1)) ELSE str

\* A trim that removes nothing.
TrimNothing(str) == str

\* str::trim
Trim(str) == TrimEnd(TrimStart(str))

\* The marker stands in str at position i.
MatchesAt(str, i) ==
    /\ i + Len(Boundary) - 1 <= Len(str)
    /\ SubSeq(str, i, i + Len(Boundary) - 1) = Boundary

\* The position of the leftmost occurrence of the marker in str, 0 if none.
Find(str) ==
    IF \E i \in 1..Len(str) : MatchesAt(str, i)
    THEN CHOOSE i \in 1..Len(str) :
            MatchesAt(str, i) /\ \A j \in 1..(i - 1) : ~MatchesAt(str, j)
    ELSE 0

RECURSIVE Split(_)
\* str::split on the boundary marker: the pieces between its occurrences,
\* found from the left without overlap.
Split(str) ==
    IF Find(str) = 0 THEN <<str>>
    ELSE <<SubSeq(str, 1, Find(str) - 1)>>
            \o Split(SubSeq(str, Find(str) + Len(Boundary), Len(str)))

RECURSIVE Replace(_)
\* str::replace(marker, ""): the occurrences found from the left without
\* overlap are removed.
Replace(str) ==
    IF Find(str) = 0 THEN str
    ELSE SubSeq(str, 1, Find(str) - 1)
            \o Replace(SubSeq(str, Find(str) + Len(Boundary), Len(str)))

\* Lines 142-149: chunk.trim(), replace(marker, ""), trim().
FilteredContent(chunk) == Trim(Replace(Trim(chunk)))

\* Lines 143 and 145: the chunk is kept.
KeepsChunk(chunk) == Trim(chunk) # <<>> /\ FilteredContent(chunk) # <<>>

\* Lines 136-156: an ErrorMessage entry for every chunk kept, stamped with
\* the clock reading taken when it is pushed.
StderrEntries(stderr, nows) ==
    IF Trim(stderr) = <<>> THEN <<>>
    ELSE LET kept == SelectSeq(Split(Trim(stderr)), KeepsChunk)
         IN [k \in 1..Len(kept) |->
                Line("ErrorMessage", <<nows[k]>>, FilteredContent(kept[k]))]

\* ExecutorConfig::from_str: the executor types the registry knows.
ParsesAsExecutor(executor_type) == executor_type \in {"claude", "claude-plan"}

\* Lines 100-134: the entries of stdout; none if normalize_logs fails.
StdoutEntries(stdout) ==
    IF HasText(stdout) /\ ExecutorNormalizeLogs(stdout).ok
    THEN ExecutorNormalizeLogs(stdout).entries
    ELSE <<>>

\* Lines 157-159: all_entries.extend(stdout_entries); extend(stderr_entries).
AllEntries(stdout_entries, stderr_entries) == stdout_entries \o stderr_entries

\* A comparator that orders timestamps descending.
CompareDescending(a, b) ==
    IF a.timestamp # <<>> /\ b.timestamp # <<>>
    THEN (IF a.timestamp[1] > b.timestamp[1] THEN "Less"
          ELSE IF a.timestamp[1] < b.timestamp[1] THEN "Greater" ELSE "Equal")
    ELSE IF a.timestamp # <<>> THEN "Less"
    ELSE IF b.timestamp # <<>> THEN "Greater"
    ELSE "Equal"

\* Lines 160-165: the comparator given to sort_by.
Compare(a, b) ==
    IF a.timestamp # <<>> /\ b.timestamp # <<>>
    THEN (IF a.timestamp[1] < b.timestamp[1] THEN "Less"
          ELSE IF a.timestamp[1] > b.timestamp[1] THEN "Greater" ELSE "Equal")
    ELSE IF a.timestamp # <<>> THEN "Less"
    ELSE IF b.timestamp # <<>> THEN "Greater"
    ELSE "Equal"

\* e put into a sorted sequence behind everything that is not greater.
InsertSorted(sorted, e) ==
    LET before == {i \in 1..Len(sorted) : Compare(sorted[i], e) # "Greater"}
        n == IF before = {} THEN 0 ELSE CHOOSE i \in before : \A j \in before : j <= i
    IN SubSeq(sorted, 1, n) \o <<e>> \o SubSeq(sorted, n + 1, Len(sorted))

RECURSIVE SortBy(_)
\* Vec::sort_by: a stable sort.
SortBy(entries) ==
    IF entries = <<>> THEN <<>>
    ELSE InsertSorted(SortBy(SubSeq(entries, 1, Len(entries) - 1)), entries[Len(entries)])

\* normalize_process_logs of process id at the clock readings nows.
NormalizeProcessLogs(id, nows) ==
    LET o == output[id]
        has_stdout == HasText(o.stdout)
        has_stderr == Trim(o.stderr) # <<>>
        setup == procs[id].ptype = "SetupScript"
    IN IF ~has_stdout /\ ~has_stderr
       THEN [id |-> id, entries |-> <<>>, executor_type |-> o.executor_type]
       ELSE IF has_stdout /\ ~setup /\ ~ParsesAsExecutor(o.executor_type)
       THEN [id |-> id, entries |-> <<>>, executor_type |-> o.executor_type]
       ELSE [id |-> id,
             entries |-> SortBy(AllEntries(StdoutEntries(o.stdout),
                                           StderrEntries(o.stderr, nows))),
             executor_type |-> IF setup THEN "setup-script" ELSE o.executor_type]

\* The command column of a process.
CommandOf(id) == <<"command", id>>

\* Lines 203-212: the item of a process, its columns and its conversation.
ProcessLogsResponse(id, nows) ==
    [id |-> id, process_type |-> procs[id].ptype, command |-> CommandOf(id),
     executor_type |-> output[id].executor_type, status |-> procs[id].status,
     normalized_conversation |-> NormalizeProcessLogs(id, nows)]

RECURSIVE ReadingsTaken(_, _)
\* How many clock readings the normalization of the first n processes of a
\* listing takes at most: one for every stderr chunk a process keeps.
ReadingsTaken(list, n) ==
    IF n = 0 THEN 0
    ELSE LET rest == ReadingsTaken(list, n - 1)
             here == Len(StderrEntries(output[list[n]].stderr, [k \in 1..MaxChunks |-> 1]))
         IN IF here > rest THEN here ELSE rest

\* Lines 196-218: the attempt's processes, each normalized; nows are the
\* readings the clock gives, of which the call keeps those it took.
LogsRun(s, dbOk, nows) ==
    LET r == reqs[s]
        list == FindByTaskAttemptId(r.attempt)
    IN /\ r.kind = "logs" /\ r.pc = "enum"
       /\ reqs' = [reqs EXCEPT ![s] =
                     IF dbOk
                     THEN Respond([r EXCEPT
                                     !.nows = SubSeq(nows, 1, ReadingsTaken(list, Len(list))),
                                     !.data = [k \in 1..Len(list) |->
                                                 ProcessLogsResponse(list[k], nows)]],
                                  "success")
                     ELSE Respond(r, "INTERNAL_SERVER_ERROR")]
       /\ UNCHANGED <<tasks, attempts, procs, handles, exited, output, bg>>

(***************************************************************************)
(* approve_plan, lines 1239-1303, and find_plan_content_with_context,      *)
(* lines 1164-1237.                                                        *)
(***************************************************************************)

\* A search that consults the processes of every executor.
PlanExecutorAny(o) == TRUE

\* Line 1186: .filter(|p| p.executor_type.as_deref() == Some("claude-plan")).
PlanExecutor(o) == o.executor_type = "claude-plan"

RECURSIVE LastPlanFrom(_, _)
\* Lines 1205-1219: entries.iter().rev().find_map(PlanPresentation { plan }).
LastPlanFrom(entries, i) ==
    IF i = 0 THEN <<>>
    ELSE IF entries[i].entry_type = "PlanPresentation" THEN <<entries[i].content>>
    ELSE LastPlanFrom(entries, i - 1)

\* Lines 1188-1228, one process: its plan, if its stdout has text, normalizes
\* and holds one.
PlanOf(o) ==
    LET normalized == ExecutorNormalizeLogs(o.stdout) IN
    IF HasText(o.stdout) /\ normalized.ok
    THEN LastPlanFrom(normalized.entries, Len(normalized.entries))
    ELSE <<>>

RECURSIVE FindPlanFrom(_, _)
\* Lines 1183-1230: the processes most recent first; the first plan found.
FindPlanFrom(list, i) ==
    IF i = 0 THEN <<>>
    ELSE IF PlanExecutor(output[list[i]]) /\ PlanOf(output[list[i]]) # <<>>
         THEN PlanOf(output[list[i]])
    ELSE FindPlanFrom(list, i - 1)

FindPlanContent(list) == FindPlanFrom(list, Len(list))

\* A handler that goes on to create the task whatever the search found.
ApproveAfterSearchGoesOn(r, plan_content) ==
    [r EXCEPT !.plan = plan_content, !.pc = "create"]

\* Lines 1232-1236 and 1262: no plan is NOT_FOUND.
ApproveAfterSearch(r, plan_content) ==
    IF plan_content = <<>> THEN Respond(r, "NOT_FOUND")
    ELSE [r EXCEPT !.plan = plan_content, !.pc = "create"]

\* A child task that does not name the attempt it descends from.
CreateTaskDataOrphan(project_id, title, plan_content, attempt_id) ==
    TaskRow(project_id, <<"Execute Plan: ">> \o title, plan_content, 0)

\* Lines 1266-1271: create_task_data.
CreateTaskData(project_id, title, plan_content, attempt_id) ==
    TaskRow(project_id, <<"Execute Plan: ">> \o title, plan_content, attempt_id)

\* Lines 1252-1259: Task::find_by_id; the task exists, exists_for_task said so.
ApproveFindTask(s, dbOk) ==
    LET r == reqs[s] IN
    /\ r.kind = "approve" /\ r.pc = "task"
    /\ reqs' = [reqs EXCEPT ![s] =
                  IF dbOk THEN [r EXCEPT !.title = tasks[r.task].title, !.pc = "plan"]
                  ELSE Respond([r EXCEPT !.storeFailed = TRUE], "INTERNAL_SERVER_ERROR")]
    /\ UNCHANGED <<tasks, attempts, procs, handles, exited, output, bg>>

\* Line 1262: find_plan_content_with_context.
ApproveFindPlan(s, dbOk) ==
    LET r == reqs[s] IN
    /\ r.kind = "approve" /\ r.pc = "plan"
    /\ reqs' = [reqs EXCEPT ![s] =
                  IF dbOk
                  THEN ApproveAfterSearch(r, FindPlanContent(FindByTaskAttemptId(r.attempt)))
                  ELSE Respond([r EXCEPT !.storeFailed = TRUE], "INTERNAL_SERVER_ERROR")]
    /\ UNCHANGED <<tasks, attempts, procs, handles, exited, output, bg>>

\* Lines 1273-1279: Task::create.
ApproveCreate(s, ok) ==
    LET r == reqs[s] IN
    /\ r.kind = "approve" /\ r.pc = "create"
    /\ tasks' = IF ok
                THEN Append(tasks, CreateTaskData(r.project, r.title, r.plan, r.attempt))
                ELSE tasks
    /\ reqs' = [reqs EXCEPT ![s] =
                  IF ok THEN [r EXCEPT !.actual = Len(tasks) + 1, !.pc = "status"]
                  ELSE Respond(r, "INTERNAL_SERVER_ERROR")]
    /\ UNCHANGED <<attempts, procs, handles, exited, output, bg>>

\* Lines 1282-1302: Task::update_status(Done), and the response.
ApproveStatus(s, ok) ==
    LET r == reqs[s] IN
    /\ r.kind = "approve" /\ r.pc = "status"
    /\ tasks' = IF ok THEN UpdateStatus(tasks, r.task, "Done") ELSE tasks
    /\ reqs' = [reqs EXCEPT ![s] =
                  IF ok THEN Respond([r EXCEPT !.statusSet = TRUE, !.created = TRUE], "success")
                  ELSE Respond(r, "INTERNAL_SERVER_ERROR")]
    /\ UNCHANGED <<attempts, procs, handles, exited, output, bg>>

(***************************************************************************)
(* get_task_attempt_details, lines 1305-1321, and                          *)
(* get_task_attempt_children, lines 1323-1352.                             *)
(***************************************************************************)

\* Task::find_related_tasks_by_attempt_id: the project's tasks that descend
\* from the attempt.
FindRelatedTasksByAttemptId(a, p) ==
    SelectIds({t \in DOMAIN tasks : /\ tasks[t].parent_task_attempt = a
                                    /\ tasks[t].project = p}, Len(tasks))

\* Lines 1337-1351.
ChildrenFind(s, dbOk) ==
    LET r == reqs[s] IN
    /\ r.kind = "children" /\ r.pc = "find"
    /\ reqs' = [reqs EXCEPT ![s] =
                  IF dbOk
                  THEN Respond([r EXCEPT !.data = FindRelatedTasksByAttemptId(r.attempt, r.project)],
                               "success")
                  ELSE Respond(r, "INTERNAL_SERVER_ERROR")]
    /\ UNCHANGED <<tasks, attempts, procs, handles, exited, output, bg>>

\* Lines 1309-1320: TaskAttempt::find_by_id; the data is the attempt's row.
DetailsFind(s, dbOk) ==
    LET r == reqs[s] IN
    /\ r.kind = "details" /\ r.pc = "find"
    /\ reqs' = [reqs EXCEPT ![s] =
                  IF ~dbOk THEN Respond(r, "INTERNAL_SERVER_ERROR")
                  ELSE IF r.attempt \in AttemptIds
                       THEN Respond([r EXCEPT !.data = <<r.attempt>>], "success")
                  ELSE Respond(r, "NOT_FOUND")]
    /\ UNCHANGED <<tasks, attempts, procs, handles, exited, output, bg>>

(***************************************************************************)
(* create_task_attempt, lines 248-310, and the background execution it     *)
(* spawns (TaskAttempt::start_execution, section 4.5 Create).              *)
(***************************************************************************)

\* The execution create spawns for an attempt; setup says whether the
\* project has a setup script, proc is the setup process once started.
Execution(stage, setup, proc) == [stage |-> stage, setup |-> setup, proc |-> proc]

\* A handler whose answer depends on how the execution went.
CreateResponseOfExecution(r, execution) ==
    IF execution.stage = "failed" THEN "INTERNAL_SERVER_ERROR" ELSE "success"

\* Lines 299-303: the answer is built from the inserted row alone.
CreateResponse(r, execution) == "success"

\* Lines 265-266 and 305-308: TaskAttempt::create inserts the row; its
\* worktree does not exist yet.
CreateInsert(s, ok) ==
    LET r == reqs[s] IN
    /\ r.kind = "create" /\ r.pc = "insert"
    /\ Len(attempts) < MaxAttempts
    /\ attempts' = IF ok
                   THEN Append(attempts, [task |-> r.task, parent |-> 0,
                                          wt |-> "none", merged |-> FALSE,
                                          base_branch |-> "main"])
                   ELSE attempts
    /\ reqs' = [reqs EXCEPT ![s] =
                  IF ok THEN [r EXCEPT !.actual = Len(attempts) + 1, !.pc = "spawn"]
                  ELSE Respond(r, "INTERNAL_SERVER_ERROR")]
    /\ UNCHANGED <<tasks, procs, handles, exited, output, bg>>

\* Lines 267-297: after the analytics event, tokio::spawn of start_execution.
CreateSpawn(s) ==
    LET r == reqs[s] IN
    /\ r.kind = "create" /\ r.pc = "spawn"
    /\ bg' = [bg EXCEPT ![r.actual] = Execution("spawned", FALSE, 0)]
    /\ reqs' = [reqs EXCEPT ![s].pc = "respond"]
    /\ UNCHANGED <<tasks, attempts, procs, handles, exited, output>>

\* Lines 299-303: the response, with the attempt as its data.
CreateRespond(s) ==
    LET r == reqs[s] IN
    /\ r.kind = "create" /\ r.pc = "respond"
    /\ reqs' = [reqs EXCEPT ![s] =
                  Respond([r EXCEPT !.data = <<r.actual>>], CreateResponse(r, bg[r.actual]))]
    /\ UNCHANGED <<tasks, attempts, procs, handles, exited, output, bg>>

\* start_execution provisions the worktree; a failure ends the execution,
\* and line 291 logs it.
ExecProvision(a, ok, setup) ==
    /\ bg[a].stage = "spawned"
    /\ bg' = [bg EXCEPT ![a] = IF ok THEN Execution("provisioned", setup, 0)
                               ELSE Execution("failed", setup, 0)]
    /\ attempts' = IF ok THEN [attempts EXCEPT ![a].wt = "present"] ELSE attempts
    /\ UNCHANGED <<tasks, procs, handles, exited, reqs, output>>

\* The setup script, if the project has one, runs as a SetupScript process.
ExecSetupStart(a) ==
    /\ bg[a].stage = "provisioned" /\ bg[a].setup
    /\ Len(procs) < MaxProcs
    /\ procs' = ProcsAfterSpawn(a, "SetupScript")
    /\ handles' = HandlesAfterSpawn
    /\ bg' = [bg EXCEPT ![a] = Execution("setup", TRUE, Len(procs) + 1)]
    /\ UNCHANGED <<tasks, attempts, exited, reqs, output>>

\* An execution that launches the agent whatever the setup script did.
SetupOutcomeIgnored(status) == "ready"

\* On a non-zero exit of the setup script the execution aborts.
SetupOutcome(status) == IF status = "Completed" THEN "ready" ELSE "failed"

\* The execution sees its setup process finished.
ExecSetupDone(a) ==
    /\ bg[a].stage = "setup"
    /\ procs[bg[a].proc].status \in Terminal
    /\ bg' = [bg EXCEPT ![a].stage = SetupOutcome(procs[bg[a].proc].status)]
    /\ UNCHANGED <<tasks, attempts, procs, handles, exited, reqs, output>>

\* The main coding agent is launched, or fails to launch.
ExecMain(a, ok) ==
    /\ \/ bg[a].stage = "provisioned" /\ ~bg[a].setup
       \/ bg[a].stage = "ready"
    /\ Len(procs) < MaxProcs
    /\ bg' = [bg EXCEPT ![a].stage = IF ok THEN "done" ELSE "failed"]
    /\ procs' = IF ok THEN ProcsAfterSpawn(a, "CodingAgent") ELSE procs
    /\ handles' = IF ok THEN HandlesAfterSpawn ELSE handles
    /\ UNCHANGED <<tasks, attempts, exited, reqs, output>>

(***************************************************************************)
(* rebase_task_attempt, lines 654-695.  TaskAttempt::rebase_attempt is not *)
(* in this file: on a conflict or any other failure it aborts and mutates  *)
(* nothing; on success it stores the new base branch if one was supplied.  *)
(***************************************************************************)
RebaseOutcomes == {"ok", "RebaseConflict", "GitError"}

\* The bodies of a rebase request: no new base branch, or one.
RebaseBodies == {<<>>, <<"develop">>}

\* TaskAttempt::rebase_attempt(attempt_id, new_base_branch): the rows after.
RebaseAttempt(a, new_base_branch, outcome) ==
    IF outcome = "ok" /\ new_base_branch # <<>>
    THEN [attempts EXCEPT ![a].base_branch = new_base_branch[1]]
    ELSE attempts

\* A handler that answers a failed rebase with an error status.
RebaseResponseStatus(r, outcome) ==
    IF outcome = "ok"
    THEN [Respond(r, "success") EXCEPT !.message = <<"Branch rebased successfully">>]
    ELSE Respond(r, "INTERNAL_SERVER_ERROR")

\* Lines 681-694: Ok is success, every Err an envelope with success false
\* and the error's text as message.
RebaseResponse(r, outcome) ==
    IF outcome = "ok"
    THEN [Respond(r, "success") EXCEPT !.message = <<"Branch rebased successfully">>]
    ELSE [Respond(r, "failure") EXCEPT !.message = <<outcome>>]

\* Lines 669-694.
RebaseRun(s, new_base_branch, outcome) ==
    LET r == reqs[s] IN
    /\ r.kind = "rebase" /\ r.pc = "rebase"
    /\ new_base_branch \in RebaseBodies
    /\ outcome \in RebaseOutcomes
    /\ attempts' = RebaseAttempt(r.attempt, new_base_branch, outcome)
    /\ reqs' = [reqs EXCEPT ![s] =
                  RebaseResponse([r EXCEPT !.input = new_base_branch,
                                           !.stateAtCall = AttemptState(r.attempt),
                                           !.error = IF outcome = "ok" THEN <<>> ELSE <<outcome>>],
                                 outcome)]
    /\ UNCHANGED <<tasks, procs, handles, exited, output, bg>>

(***************************************************************************)
(* create_github_pr, lines 398-527.  Option values are sequences of at     *)
(* most one element.                                                       *)
(***************************************************************************)
\* What Config::load may read of the github section, or <<>> when it fails.
GitHubConfigs ==
    [token : {<<>>, <<"oauth">>}, pat : {<<>>, <<"pat">>},
     default_pr_base : {<<>>, <<"release">>}]

\* request.base_branch
PrBodies == {<<>>, <<"feature">>}

\* The errors TaskAttempt::create_github_pr may give: the variant, and the
\* phrases its text contains.
PrErrors ==
    {[variant |-> "GitHubService::TokenInvalid", contains |-> {}]}
        \cup {[variant |-> "GitService::Git", contains |-> c] :
                 c \in SUBSET {"too many redirects or authentication replays",
                               "status code: 403", "status code: 404"}}
        \cup {[variant |-> v, contains |-> c] :
                 v \in {"GitHubService::Other", "GitService::Other"},
                 c \in {{}, {"status code: 403"}}}

\* A mapping that reports every failure alike.
PrFailureMessagePlain(e) == <<"Failed to create PR: ", e>>

\* Lines 496-518: the message of a failure.
PrFailureMessage(e) ==
    IF e.variant = "GitHubService::TokenInvalid" THEN <<"github_token_invalid">>
    ELSE IF /\ e.variant = "GitService::Git"
            /\ "too many redirects or authentication replays" \in e.contains
    THEN <<"insufficient_github_permissions">>
    ELSE IF e.variant = "GitService::Git" /\ "status code: 403" \in e.contains
    THEN <<"insufficient_github_permissions">>
    ELSE IF e.variant = "GitService::Git" /\ "status code: 404" \in e.contains
    THEN <<"github_repo_not_found_or_no_access">>
    ELSE <<"Failed to create PR: ", e>>

\* A handler for which a personal access token stands in for a missing
\* token.
PrAfterConfigPatSuffices(r, config) ==
    IF config = <<>> THEN Respond(r, "INTERNAL_SERVER_ERROR")
    ELSE IF config[1].token = <<>> /\ config[1].pat = <<>>
    THEN [Respond([r EXCEPT !.config = config], "failure") EXCEPT
            !.message = <<"GitHub authentication not configured. Please sign in with GitHub.">>]
    ELSE [r EXCEPT !.config = config, !.pc = "attempt"]

\* Lines 414-433: the configuration is loaded; without a token the call
\* ends with an envelope.
PrAfterConfig(r, config) ==
    IF config = <<>> THEN Respond(r, "INTERNAL_SERVER_ERROR")
    ELSE IF config[1].token = <<>>
    THEN [Respond([r EXCEPT !.config = config], "failure") EXCEPT
            !.message = <<"GitHub authentication not configured. Please sign in with GitHub.">>]
    ELSE [r EXCEPT !.config = config, !.pc = "attempt"]

PrLoadConfig(s, config) ==
    LET r == reqs[s] IN
    /\ r.kind = "pr" /\ r.pc = "config"
    /\ config \in {<<>>} \cup {<<c>> : c \in GitHubConfigs}
    /\ reqs' = [reqs EXCEPT ![s] = PrAfterConfig(r, config)]
    /\ UNCHANGED <<tasks, attempts, procs, handles, exited, output, bg>>

\* str::trim().is_empty() of a branch name.
IsBlankName(name) == name \in {"", " "}

\* A resolution that does not look at the request.
PrBaseBranchStored(request_base_branch, attempt_base_branch, default_pr_base) ==
    IF ~IsBlankName(attempt_base_branch) THEN attempt_base_branch
    ELSE IF default_pr_base # <<>> THEN default_pr_base[1]
    ELSE "main"

\* Lines 445-456: the base branch of the pull request.
PrBaseBranch(request_base_branch, attempt_base_branch, default_pr_base) ==
    IF request_base_branch # <<>> THEN request_base_branch[1]
    ELSE IF ~IsBlankName(attempt_base_branch) THEN attempt_base_branch
    ELSE IF default_pr_base # <<>> THEN default_pr_base[1]
    ELSE "main"

\* Lines 436-456: the attempt is read for its stored base branch.
PrFindAttempt(s, dbOk, base_branch) ==
    LET r == reqs[s] IN
    /\ r.kind = "pr" /\ r.pc = "attempt"
    /\ base_branch \in PrBodies
    /\ reqs' = [reqs EXCEPT ![s] =
                  IF ~dbOk THEN Respond([r EXCEPT !.storeFailed = TRUE], "INTERNAL_SERVER_ERROR")
                  ELSE IF r.attempt \notin AttemptIds THEN Respond(r, "NOT_FOUND")
                  ELSE [r EXCEPT !.input = base_branch,
                                 !.base_branch = <<attempts[r.attempt].base_branch>>,
                                 !.pc = "pr"]]
    /\ UNCHANGED <<tasks, attempts, procs, handles, exited, output, bg>>

\* Line 465: config.github.pat.unwrap_or(github_token).
PrCredential(config) == IF config.pat # <<>> THEN config.pat[1] ELSE config.token[1]

\* Lines 458-525: the service is called with the credential and the base
\* branch; its outcome is a URL or an error, answered in an envelope.
PrCreate(s, outcome) ==
    LET r == reqs[s]
        params == [github_token |-> PrCredential(r.config[1]),
                   base_branch |-> PrBaseBranch(r.input, r.base_branch[1],
                                                r.config[1].default_pr_base)]
        called == [r EXCEPT !.called = <<params>>]
    IN
    /\ r.kind = "pr" /\ r.pc = "pr"
    /\ outcome \in {<<>>} \cup {<<e>> : e \in PrErrors}
    /\ reqs' = [reqs EXCEPT ![s] =
                  IF outcome = <<>>
                  THEN [Respond(called, "success") EXCEPT
                          !.message = <<"GitHub PR created successfully">>]
                  ELSE [Respond(called, "failure") EXCEPT
                          !.error = outcome,
                          !.message = PrFailureMessage(outcome[1])]]
    /\ UNCHANGED <<tasks, attempts, procs, handles, exited, output, bg>>

(***************************************************************************)
(* open_task_attempt_in_editor, lines 534-619.  EditorConfig::get_command  *)
(* is not in this file: it gives the command line of the editor type, the  *)
(* custom command for Custom.                                              *)
(***************************************************************************)
\* The editor section of the configuration the server holds.
EditorConfigs ==
    [editor_type : {"VSCode", "Zed", "Custom"}, custom_command : {<<>>, <<"nvim -p">>}]

\* The payloads: no body, a body without editor_type, and bodies with one.
EditorBodies ==
    {<<>>, <<[editor_type |-> <<>>]>>}
        \cup {<<[editor_type |-> <<e>>]>> :
                 e \in {"vscode", "cursor", "windsurf", "intellij", "zed", "custom",
                        "VSCode", "emacs"}}

\* EditorConfig::get_command.
GetCommand(editor) ==
    CASE editor.editor_type = "VSCode" -> <<"code">>
      [] editor.editor_type = "Cursor" -> <<"cursor">>
      [] editor.editor_type = "Windsurf" -> <<"windsurf">>
      [] editor.editor_type = "IntelliJ" -> <<"idea">>
      [] editor.editor_type = "Zed" -> <<"zed">>
      [] editor.editor_type = "Custom" ->
            IF editor.custom_command = <<>> THEN <<"code">>
            ELSE IF editor.custom_command[1] = "nvim -p" THEN <<"nvim", "-p">>
            ELSE editor.custom_command

\* An override that leaves the configured editor type alone.
OverrideEditorTypeNever(editor_type, config) == config.editor_type

\* Lines 566-574: the editor type a request names, the configured one if
\* the name is none of the six.
OverrideEditorType(editor_type, config) ==
    CASE editor_type = "vscode" -> "VSCode"
      [] editor_type = "cursor" -> "Cursor"
      [] editor_type = "windsurf" -> "Windsurf"
      [] editor_type = "intellij" -> "IntelliJ"
      [] editor_type = "zed" -> "Zed"
      [] editor_type = "custom" -> "Custom"
      [] OTHER -> config.editor_type

\* Lines 560-586: the editor command from the configuration or the override.
EditorCommand(payload, config) ==
    IF payload # <<>> /\ payload[1].editor_type # <<>>
    THEN GetCommand([editor_type |-> OverrideEditorType(payload[1].editor_type[1], config),
                     custom_command |-> config.custom_command])
    ELSE GetCommand(config)

\* The worktree_path column of an attempt.
WorktreePath(a) == <<"worktree", a>>

\* Lines 550-557: the attempt is read for its worktree path.
EditorFindAttempt(s, dbOk) ==
    LET r == reqs[s] IN
    /\ r.kind = "editor" /\ r.pc = "attempt"
    /\ reqs' = [reqs EXCEPT ![s] =
                  IF ~dbOk THEN Respond([r EXCEPT !.storeFailed = TRUE], "INTERNAL_SERVER_ERROR")
                  ELSE IF r.attempt \notin AttemptIds THEN Respond(r, "NOT_FOUND")
                  ELSE [r EXCEPT !.path = WorktreePath(r.attempt), !.pc = "spawn"]]
    /\ UNCHANGED <<tasks, attempts, procs, handles, exited, output, bg>>

\* Lines 559-618: the command is resolved and spawned with the worktree
\* path as its last argument; the handler does not wait for the editor.
EditorSpawn(s, payload, config, ok) ==
    LET r == reqs[s]
        cmd == Append(EditorCommand(payload, config), r.path)
        spawned == [r EXCEPT !.input = payload, !.config = <<config>>, !.called = <<cmd>>]
    IN
    /\ r.kind = "editor" /\ r.pc = "spawn"
    /\ payload \in EditorBodies
    /\ config \in EditorConfigs
    /\ reqs' = [reqs EXCEPT ![s] =
                  IF ok THEN [Respond(spawned, "success") EXCEPT
                                !.message = <<"Editor opened successfully">>]
                  ELSE Respond(spawned, "INTERNAL_SERVER_ERROR")]
    /\ UNCHANGED <<tasks, attempts, procs, handles, exited, output, bg>>

(***************************************************************************)
(* get_execution_process, lines 729-767.                                   *)
(***************************************************************************)
\* A check of the task that does not look at its project.
OwnedByProjectAny(t, project) == t \in DOMAIN tasks

\* Lines 752-753: the task is there and is the project's.
OwnedByProject(t, project) == t \in DOMAIN tasks /\ tasks[t].project = project

\* Lines 734-741: ExecutionProcess::find_by_id.
GetProcessFind(s, dbOk) ==
    LET r == reqs[s] IN
    /\ r.kind = "process" /\ r.pc = "process"
    /\ reqs' = [reqs EXCEPT ![s] =
                  IF ~dbOk THEN Respond([r EXCEPT !.storeFailed = TRUE], "INTERNAL_SERVER_ERROR")
                  ELSE IF r.proc \notin ProcIds THEN Respond(r, "NOT_FOUND")
                  ELSE [r EXCEPT !.list = <<procs[r.proc]>>, !.pc = "attempt"]]
    /\ UNCHANGED <<tasks, attempts, procs, handles, exited, output, bg>>

\* Lines 744-750: TaskAttempt::find_by_id(process.task_attempt_id).
GetProcessAttempt(s, dbOk) ==
    LET r == reqs[s] IN
    /\ r.kind = "process" /\ r.pc = "attempt"
    /\ reqs' = [reqs EXCEPT ![s] =
                  IF ~dbOk THEN Respond([r EXCEPT !.storeFailed = TRUE], "INTERNAL_SERVER_ERROR")
                  ELSE IF r.list[1].attempt \notin AttemptIds THEN Respond(r, "NOT_FOUND")
                  ELSE [r EXCEPT !.attempt = r.list[1].attempt,
                                 !.task = attempts[r.list[1].attempt].task,
                                 !.pc = "task"]]
    /\ UNCHANGED <<tasks, attempts, procs, handles, exited, output, bg>>

\* Lines 752-766: Task::find_by_id(attempt.task_id); the process is the
\* answer if the task is the project's.
GetProcessTask(s, dbOk) ==
    LET r == reqs[s] IN
    /\ r.kind = "process" /\ r.pc = "task"
    /\ reqs' = [reqs EXCEPT ![s] =
                  IF ~dbOk THEN Respond([r EXCEPT !.storeFailed = TRUE], "INTERNAL_SERVER_ERROR")
                  ELSE IF OwnedByProject(r.task, r.project)
                  THEN [Respond(r, "success") EXCEPT !.data = r.list]
                  ELSE Respond(r, "NOT_FOUND")]
    /\ UNCHANGED <<tasks, attempts, procs, handles, exited, output, bg>>

(***************************************************************************)
(* get_models, src/backend/src/routes/opencode.rs lines 10-47.  The output *)
(* of the shell command is a sequence of characters, "\n" the line feed.   *)
(***************************************************************************)
RECURSIVE Lines(_)
\* str::lines: the pieces between line feeds; a final line feed ends the
\* last line and opens no other.
Lines(str) ==
    IF str = <<>> THEN <<>>
    ELSE IF \A i \in 1..Len(str) : str[i] # "\n" THEN <<str>>
    ELSE LET i == CHOOSE k \in 1..Len(str) :
                      str[k] = "\n" /\ \A j \in 1..(k - 1) : str[j] # "\n"
         IN <<SubSeq(str, 1, i - 1)>> \o Lines(SubSeq(str, i + 1, Len(str)))

IsNotEmpty(l) == l # <<>>

\* The lines as they are, blank ones included.
ModelsOfRawLines(stdout) == Lines(stdout)

\* Lines 21-26: lines().map(trim).filter(not empty).collect().
ModelsOf(stdout) ==
    SelectSeq([k \in 1..Len(Lines(stdout)) |-> Trim(Lines(stdout)[k])], IsNotEmpty)

RECURSIVE Outputs(_)
\* What the command may write: at most n characters.
Outputs(n) ==
    IF n = 0 THEN {<<>>}
    ELSE Outputs(n - 1) \cup
         {Append(str, c) : str \in {x \in Outputs(n - 1) : Len(x) = n - 1},
                           c \in {"a", "b", " ", "\n"}}

\* The results of Command::output: the command cannot be run, or it runs
\* and exits, successfully or not, having written its stdout.
CommandOutcomes ==
    {[ran |-> FALSE, success |-> FALSE, stdout |-> <<>>]}
        \cup {[ran |-> TRUE, success |-> FALSE, stdout |-> o] : o \in {<<>>, <<"a">>}}
        \cup {[ran |-> TRUE, success |-> TRUE, stdout |-> o] : o \in Outputs(MaxOutput)}

\* Lines 18-46: the envelope.
GetModels(s, out) ==
    LET r == [IdleReq EXCEPT !.kind = "models", !.input = <<out>>] IN
    /\ reqs[s].pc = "idle"
    /\ \A s2 \in Slots : s2 < s => reqs[s2].pc # "idle"
    /\ out \in CommandOutcomes
    /\ reqs' = [reqs EXCEPT ![s] =
                  IF out.ran /\ out.success
                  THEN [Respond(r, "success") EXCEPT
                          !.data = <<ModelsOf(out.stdout)>>,
                          !.message = <<"Opencode models retrieved successfully">>]
                  ELSE IF out.ran
                  THEN [Respond(r, "failure") EXCEPT
                          !.message = <<"Failed to run opencode models: exit code ">>]
                  ELSE [Respond(r, "failure") EXCEPT
                          !.message = <<"Failed to run opencode models: ">>]]
    /\ UNCHANGED <<tasks, attempts, procs, handles, exited, output, bg>>

(***************************************************************************)
(* Specifications.  Arrives(K) lets requests of the kinds K arrive.        *)
(***************************************************************************)
Arrives(K) ==
    \E s \in Slots, kind \in K, args \in PathArgs, id \in 1..MaxProcs, dbOk \in BOOLEAN :
        /\ kind \notin {"stop", "process"} => id = 1
        /\ kind \in {"details", "process"} => dbOk
        /\ Begin(s, kind, Path(kind, args)[1], Path(kind, args)[2], Path(kind, args)[3],
                 IF kind \in {"stop", "process"} THEN id ELSE 0, dbOk)

Exits == \E p \in 1..MaxProcs, st \in {"Completed", "Failed"} : ProcessExits(p, st)

Reports == \E p \in 1..MaxProcs : SupervisorReports(p)

Lost == \E a \in 1..MaxAttempts, how \in {"missing", "irrecoverable"} : WorktreeLost(a, how)

StopAllSteps ==
    \/ \E s \in Slots, dbOk \in BOOLEAN : StopAllEnum(s, dbOk)
    \/ \E s \in Slots, outcome \in {"true", "false", "err"} : StopAllKill(s, outcome)
    \/ \E s \in Slots, ok \in BOOLEAN : StopAllUpdate(s, ok)

StopSteps ==
    \/ \E s \in Slots, outcome \in {"true", "false", "err"} : StopKill(s, outcome)
    \/ \E s \in Slots, ok \in BOOLEAN : StopUpdate(s, ok)

DevSteps ==
    \/ \E s \in Slots, dbOk \in BOOLEAN : DevEnum(s, dbOk)
    \/ \E s \in Slots, outcome \in {"true", "false", "err"} : DevKill(s, outcome)
    \/ \E s \in Slots, ok \in BOOLEAN : DevUpdate(s, ok)
    \/ \E s \in Slots, started \in BOOLEAN : DevSpawn(s, started)

FollowupSteps == \E s \in Slots, outcome \in {"fail", "same", "fork"} : FollowupRun(s, outcome)

MergeSteps ==
    \/ \E s \in Slots, merged \in BOOLEAN : MergeChanges(s, merged)
    \/ \E s \in Slots, ok \in BOOLEAN : MergeStatus(s, ok)

\* Process supervision: stop, stop_all and start_dev_server against the
\* supervisor's own exit reports.
NextSupervision ==
    \/ Exits
    \/ Reports
    \/ Arrives({"stop_all", "stop", "dev"})
    \/ StopAllSteps
    \/ StopSteps
    \/ DevSteps

SpecSupervision == Init /\ [][NextSupervision]_vars

\* Scopes: the first project's attempt runs a coding agent and a dev server,
\* the second project's attempt a dev server.
InitScopes ==
    /\ tasks = [t \in TaskIds |->
                  [TaskRow(t, <<"title", t>>, <<>>, 0) EXCEPT !.status = "InProgress"]]
    /\ attempts = <<[task |-> 1, parent |-> 0, wt |-> "present", merged |-> FALSE,
                     base_branch |-> "main"],
                    [task |-> 2, parent |-> 0, wt |-> "present", merged |-> FALSE,
                     base_branch |-> "main"]>>
    /\ procs = <<SpawnRow(1, "CodingAgent"), SpawnRow(2, "DevServer"),
                 SpawnRow(1, "DevServer")>>
    /\ handles = {1, 2, 3}
    /\ exited = [p \in 1..MaxProcs |-> "none"]
    /\ reqs = [s \in Slots |-> IdleReq]
    /\ bg = [a \in 1..MaxAttempts |-> NoExecution]
    /\ output = [p \in 1..MaxProcs |-> NoOutput]

NextScopes ==
    \/ Exits
    \/ Arrives({"stop_all", "dev"})
    \/ StopAllSteps
    \/ DevSteps

SpecScopes == InitScopes /\ [][NextScopes]_vars

\* The attempt's workflow: follow-up and merge, while its processes exit and
\* its worktree may be lost.
NextWorkflow ==
    \/ Exits
    \/ Reports
    \/ Lost
    \/ Arrives({"followup", "merge"})
    \/ FollowupSteps
    \/ MergeSteps

SpecWorkflow == Init /\ [][NextWorkflow]_vars

ApproveSteps ==
    \/ \E s \in Slots, dbOk \in BOOLEAN : ApproveFindTask(s, dbOk)
    \/ \E s \in Slots, dbOk \in BOOLEAN : ApproveFindPlan(s, dbOk)
    \/ \E s \in Slots, ok \in BOOLEAN : ApproveCreate(s, ok)
    \/ \E s \in Slots, ok \in BOOLEAN : ApproveStatus(s, ok)

ReadSteps ==
    \/ \E s \in Slots, dbOk \in BOOLEAN : ChildrenFind(s, dbOk)
    \/ \E s \in Slots, dbOk \in BOOLEAN : DetailsFind(s, dbOk)

\* What a planning agent's stdout may hold: nothing, white space, a message,
\* one plan, two plans, a plan before a message, a line the parser fails on.
PlanStdouts ==
    LET ws == Line("Whitespace", <<>>, " ")
        msg == Line("AssistantMessage", <<>>, "message")
        planA == Line("PlanPresentation", <<>>, "plan A")
        planB == Line("PlanPresentation", <<>>, "plan B")
        corrupt == Line("Corrupt", <<>>, "{")
    IN {<<>>, <<ws>>, <<msg>>, <<planA>>, <<planA, planB>>, <<planB, msg>>,
        <<planA, corrupt>>}

\* Plan approval: the first attempt has run two agents to completion, the
\* second one planning agent; what they wrote is any of PlanStdouts.
InitPlan ==
    /\ tasks = [t \in TaskIds |->
                  [TaskRow(1, <<"title", t>>, <<>>, 0) EXCEPT !.status = "InProgress"]]
    /\ attempts = <<[task |-> 1, parent |-> 0, wt |-> "present", merged |-> FALSE,
                     base_branch |-> "main"],
                    [task |-> 2, parent |-> 0, wt |-> "present", merged |-> FALSE,
                     base_branch |-> "main"]>>
    /\ procs = <<[SpawnRow(1, "CodingAgent") EXCEPT !.status = "Completed"],
                 [SpawnRow(1, "Followup") EXCEPT !.status = "Completed"],
                 [SpawnRow(2, "CodingAgent") EXCEPT !.status = "Completed"]>>
    /\ handles = {}
    /\ exited = [p \in 1..MaxProcs |-> "none"]
    /\ reqs = [s \in Slots |-> IdleReq]
    /\ bg = [a \in 1..MaxAttempts |-> NoExecution]
    /\ \E e1, e2 \in {"claude-plan", "claude"}, o1, o2 \in PlanStdouts :
          output = [p \in 1..MaxProcs |->
                      IF p = 1 THEN [executor_type |-> e1, stdout |-> o1, stderr |-> <<>>]
                      ELSE IF p = 2 THEN [executor_type |-> e2, stdout |-> o2, stderr |-> <<>>]
                      ELSE IF p = 3
                      THEN [executor_type |-> "claude-plan",
                            stdout |-> <<Line("PlanPresentation", <<>>, "plan C")>>,
                            stderr |-> <<>>]
                      ELSE NoOutput]

NextPlan ==
    \/ Arrives({"approve", "children", "details"})
    \/ ApproveSteps
    \/ ReadSteps

SpecPlan == InitPlan /\ [][NextPlan]_vars

CreateSteps ==
    \/ \E s \in Slots, ok \in BOOLEAN : CreateInsert(s, ok)
    \/ \E s \in Slots : CreateSpawn(s)
    \/ \E s \in Slots : CreateRespond(s)

ExecutionSteps ==
    \/ \E a \in 1..MaxAttempts, ok \in BOOLEAN, setup \in BOOLEAN : ExecProvision(a, ok, setup)
    \/ \E a \in 1..MaxAttempts : ExecSetupStart(a)
    \/ \E a \in 1..MaxAttempts : ExecSetupDone(a)
    \/ \E a \in 1..MaxAttempts, ok \in BOOLEAN : ExecMain(a, ok)

\* Creation: the handler, the execution it spawns, and the exits of the
\* processes.
NextCreate ==
    \/ Exits
    \/ Reports
    \/ Arrives({"create"})
    \/ CreateSteps
    \/ ExecutionSteps

SpecCreate == Init /\ [][NextCreate]_vars

Times == 1..MaxTime

LogsSteps ==
    \E s \in Slots, dbOk \in BOOLEAN, nows \in [1..MaxChunks -> Times] : LogsRun(s, dbOk, nows)

RECURSIVE Strings(_)
\* The persisted stderr of at most n pieces, each a character or a marker.
Strings(n) ==
    IF n = 0 THEN {<<>>}
    ELSE Strings(n - 1) \cup
         {str \o c : str \in Strings(n - 1),
                     c \in {<<"a">>, <<"b">>, <<" ">>, Boundary}}

RECURSIVE Chars(_)
\* The persisted stderr of at most n characters, those of the marker among
\* them.
Chars(n) ==
    IF n = 0 THEN {<<>>}
    ELSE Chars(n - 1) \cup
         {Append(str, c) : str \in {x \in Chars(n - 1) : Len(x) = n - 1},
                           c \in {"-", "X", "a", " "}}

\* The persisted stdout: at most two lines, the first a message "m" with or
\* without timestamp, white space or a line the parser fails on, the second
\* a message "n".
LogStdouts ==
    LET stamps == {<<>>} \cup {<<t>> : t \in Times}
        first == {Line("AssistantMessage", ts, <<"m">>) : ts \in stamps}
                    \cup {Line("Whitespace", <<>>, <<" ">>), Line("Corrupt", <<>>, <<"{">>)}
        second == {Line("AssistantMessage", ts, <<"n">>) : ts \in stamps}
    IN {<<>>} \cup {<<l>> : l \in first} \cup {<<l1, l2>> : l1 \in first, l2 \in second}

\* Logs: the first attempt runs its coding agent, which has persisted any
\* output, the second its setup script.
InitLogs ==
    /\ tasks = [t \in TaskIds |->
                  [TaskRow(1, <<"title", t>>, <<>>, 0) EXCEPT !.status = "InProgress"]]
    /\ attempts = <<[task |-> 1, parent |-> 0, wt |-> "present", merged |-> FALSE,
                     base_branch |-> "main"],
                    [task |-> 2, parent |-> 0, wt |-> "present", merged |-> FALSE,
                     base_branch |-> "main"]>>
    /\ procs = <<SpawnRow(1, "CodingAgent"), SpawnRow(2, "SetupScript")>>
    /\ handles = {1, 2}
    /\ exited = [p \in 1..MaxProcs |-> "none"]
    /\ reqs = [s \in Slots |-> IdleReq]
    /\ bg = [a \in 1..MaxAttempts |-> NoExecution]
    /\ \E e \in {"claude", "bogus"}, out \in LogStdouts, err \in Strings(MaxStderr) :
          output = [p \in 1..MaxProcs |->
                      IF p = 1 THEN [executor_type |-> e, stdout |-> out, stderr |-> err]
                      ELSE NoOutput]

NextLogs ==
    \/ Arrives({"logs"})
    \/ LogsSteps

SpecLogs == InitLogs /\ [][NextLogs]_vars

\* Stderr: the coding agent of the first attempt has persisted stderr only,
\* any string of characters.
InitStderr ==
    /\ tasks = [t \in TaskIds |->
                  [TaskRow(1, <<"title", t>>, <<>>, 0) EXCEPT !.status = "InProgress"]]
    /\ attempts = <<[task |-> 1, parent |-> 0, wt |-> "present", merged |-> FALSE,
                     base_branch |-> "main"],
                    [task |-> 2, parent |-> 0, wt |-> "present", merged |-> FALSE,
                     base_branch |-> "main"]>>
    /\ procs = <<SpawnRow(1, "CodingAgent"), SpawnRow(2, "SetupScript")>>
    /\ handles = {1, 2}
    /\ exited = [p \in 1..MaxProcs |-> "none"]
    /\ reqs = [s \in Slots |-> IdleReq]
    /\ bg = [a \in 1..MaxAttempts |-> NoExecution]
    /\ \E err \in Chars(MaxChars) :
          output = [p \in 1..MaxProcs |->
                      IF p = 1 THEN [executor_type |-> "claude", stdout |-> <<>>, stderr |-> err]
                      ELSE NoOutput]

SpecStderr == InitStderr /\ [][NextLogs]_vars

\* Listing: the first attempt has run its setup script, which wrote nothing
\* or white space, and runs its coding agent, which has persisted some
\* output or none; the second attempt's coding agent was created in between.
InitListing ==
    /\ tasks = [t \in TaskIds |->
                  [TaskRow(1, <<"title", t>>, <<>>, 0) EXCEPT !.status = "InProgress"]]
    /\ attempts = <<[task |-> 1, parent |-> 0, wt |-> "present", merged |-> FALSE,
                     base_branch |-> "main"],
                    [task |-> 2, parent |-> 0, wt |-> "present", merged |-> FALSE,
                     base_branch |-> "main"]>>
    /\ procs = <<[SpawnRow(1, "SetupScript") EXCEPT !.status = "Completed"],
                 SpawnRow(2, "CodingAgent"), SpawnRow(1, "CodingAgent")>>
    /\ handles = {2, 3}
    /\ exited = [p \in 1..MaxProcs |-> "none"]
    /\ reqs = [s \in Slots |-> IdleReq]
    /\ bg = [a \in 1..MaxAttempts |-> NoExecution]
    /\ \E e \in {"claude", "bogus"}, white \in {<<>>, <<" ">>},
          out \in {<<>>, <<Line("AssistantMessage", <<1>>, <<"m">>)>>},
          err \in {<<>>, <<" ">>, <<"a">>} :
          output = [p \in 1..MaxProcs |->
                      IF p = 1 THEN [executor_type |-> "setup-script", stdout |-> <<>>,
                                     stderr |-> white]
                      ELSE IF p = 3 THEN [executor_type |-> e, stdout |-> out, stderr |-> err]
                      ELSE NoOutput]

SpecListing == InitListing /\ [][NextLogs]_vars

\* Everything together.
RebaseSteps ==
    \E s \in Slots, new_base_branch \in RebaseBodies, outcome \in RebaseOutcomes :
        RebaseRun(s, new_base_branch, outcome)

PrSteps ==
    \E s \in Slots :
        \/ \E config \in {<<>>} \cup {<<c>> : c \in GitHubConfigs} : PrLoadConfig(s, config)
        \/ \E dbOk \in BOOLEAN, base_branch \in PrBodies : PrFindAttempt(s, dbOk, base_branch)
        \/ \E outcome \in {<<>>} \cup {<<e>> : e \in PrErrors} : PrCreate(s, outcome)

EditorSteps ==
    \E s \in Slots :
        \/ \E dbOk \in BOOLEAN : EditorFindAttempt(s, dbOk)
        \/ \E payload \in EditorBodies, config \in EditorConfigs, ok \in BOOLEAN :
              EditorSpawn(s, payload, config, ok)

GetProcessSteps ==
    \E s \in Slots, dbOk \in BOOLEAN :
        \/ GetProcessFind(s, dbOk)
        \/ GetProcessAttempt(s, dbOk)
        \/ GetProcessTask(s, dbOk)

\* Branches: the first task is the first project's and its attempt is idle
\* after its coding agent completed; the second task is the second
\* project's, its attempt runs its coding agent and has a blank base branch
\* stored.
InitBranches ==
    /\ tasks = [t \in TaskIds |->
                  [TaskRow(t, <<"title", t>>, <<>>, 0) EXCEPT !.status = "InProgress"]]
    /\ attempts = <<[task |-> 1, parent |-> 0, wt |-> "present", merged |-> FALSE,
                     base_branch |-> "main"],
                    [task |-> 2, parent |-> 0, wt |-> "present", merged |-> FALSE,
                     base_branch |-> " "]>>
    /\ procs = <<[SpawnRow(1, "CodingAgent") EXCEPT !.status = "Completed"],
                 SpawnRow(2, "CodingAgent")>>
    /\ handles = {2}
    /\ exited = [p \in 1..MaxProcs |-> "none"]
    /\ reqs = [s \in Slots |-> IdleReq]
    /\ bg = [a \in 1..MaxAttempts |-> NoExecution]
    /\ output = [p \in 1..MaxProcs |-> NoOutput]

NextRebase ==
    \/ Arrives({"rebase"})
    \/ RebaseSteps

SpecRebase == InitBranches /\ [][NextRebase]_vars

NextPr ==
    \/ Arrives({"pr"})
    \/ PrSteps

SpecPr == InitBranches /\ [][NextPr]_vars

NextEditor ==
    \/ Arrives({"editor"})
    \/ EditorSteps

SpecEditor == InitBranches /\ [][NextEditor]_vars

NextGetProcess ==
    \/ Arrives({"process"})
    \/ GetProcessSteps

SpecGetProcess == InitBranches /\ [][NextGetProcess]_vars

NextModels == \E s \in Slots, out \in CommandOutcomes : GetModels(s, out)

SpecModels == Init /\ [][NextModels]_vars

Next ==
    \/ NextSupervision
    \/ NextWorkflow
    \/ NextPlan
    \/ NextCreate
    \/ NextLogs
    \/ NextRebase
    \/ NextPr
    \/ NextEditor
    \/ NextGetProcess
    \/ NextScopes
    \/ NextModels

Spec == Init /\ [][Next]_vars

(***************************************************************************)
(* Properties.                                                             *)
(***************************************************************************)

\* Request s returns in this step, having done more than validate its path.
Returns(s) == Active(reqs[s]) /\ reqs'[s].pc = "done"

DevServersRunningAfter(p) ==
    {d \in 1..Len(procs') : /\ procs'[d].ptype = "DevServer"
                            /\ procs'[d].status = "Running"
                            /\ tasks'[attempts'[procs'[d].attempt].task].project = p}

\* C1, as claimed: when a start_dev_server call that no other
\* start_dev_server call overlapped returns success, every dev server of the
\* project that was Running when the call began is Killed, and exactly one
\* dev server of the project is Running.
C1_DevSingletonOneAtATime ==
    [][\A s \in Slots :
          (/\ reqs[s].kind = "dev"
           /\ Returns(s)
           /\ reqs'[s].resp = "success"
           /\ ~reqs[s].overlap)
          => /\ \A d \in reqs[s].before : procs'[d].status = "Killed"
             /\ Cardinality(DevServersRunningAfter(reqs[s].project)) = 1]_vars

\* C2, as claimed, for calls none of whose kill and update_completion steps
\* failed (so that only the interleaving is left to blame): once two
\* start_dev_server calls on the same project have both returned success, at
\* most one dev server of the project is Running.
C2_DevSingletonConcurrent ==
    [][\A s \in Slots :
          (/\ reqs[s].kind = "dev"
           /\ Returns(s)
           /\ reqs'[s].resp = "success"
           /\ reqs[s].killErr = 0 /\ reqs[s].updErr = 0
           /\ \E s2 \in Slots \ {s} :
                 /\ reqs[s2].kind = "dev"
                 /\ reqs[s2].pc = "done"
                 /\ reqs[s2].resp = "success"
                 /\ reqs[s2].project = reqs[s].project
                 /\ reqs[s2].killErr = 0 /\ reqs[s2].updErr = 0)
          => Cardinality(DevServersRunningAfter(reqs[s].project)) <= 1]_vars

\* C3, as claimed, for the calls that answer success: when stop_all returns,
\* every process of the attempt whose row was Running when the call began has
\* a terminal status.
C3_StopAllLeavesNoneRunning ==
    [][\A s \in Slots :
          (/\ reqs[s].kind = "stop_all"
           /\ Returns(s)
           /\ reqs'[s].resp = "success")
          => \A q \in reqs[s].before : procs'[q].status \in Terminal]_vars

\* C4: a row that holds a terminal status keeps it in every step, whoever
\* takes the step (stop, stop_all, start_dev_server's pre-emption, the
\* supervisor's exit report).
C4_OneTerminalTransition ==
    [][\A q \in ProcIds :
          procs[q].status \in Terminal => procs'[q].status = procs[q].status]_vars

\* C4's case: an update_completion(Killed) reached a row that had already
\* reported Completed or Failed, and the row kept that status.
C4_Witness ==
    \E s \in Slots : reqs[s].kept \in {"Completed", "Failed"}

\* C5: stop_all's envelope says success exactly when no kill call returned
\* an error and no update_completion failed; the count it reports is the
\* number of kill calls that returned true, so a process that was not running
\* adds neither an error nor to the count.
C5_StopAllEnvelope ==
    \A s \in Slots :
        (/\ reqs[s].kind = "stop_all"
         /\ reqs[s].pc = "done"
         /\ reqs[s].resp \in {"success", "failure"})
        => /\ (reqs[s].resp = "success") <=> (reqs[s].killErr = 0 /\ reqs[s].updErr = 0)
           /\ reqs[s].stopped_count = reqs[s].killTrue

\* C5's cases: a call that met only processes that were not running and
\* stopped none succeeded; so did a call on an attempt's processes one of
\* which it stopped; a call that collected an error did not.
C5_Witness ==
    /\ \E s \in Slots :
          /\ reqs[s].kind = "stop_all" /\ reqs[s].pc = "done"
          /\ reqs[s].resp = "failure" /\ reqs[s].updErr > 0
    /\ \E s \in Slots :
          /\ reqs[s].kind = "stop_all" /\ reqs[s].pc = "done"
          /\ reqs[s].resp = "success"
          /\ reqs[s].killFalse > 0 /\ reqs[s].stopped_count = 0

\* A second stop_all: the call began after a stop_all on the same attempt had
\* returned success, and no process row has been created since that first
\* call listed the attempt's processes.
SecondStopAll(s) ==
    /\ reqs[s].kind = "stop_all"
    /\ reqs[s].pc = "done"
    /\ reqs[s].again
    /\ reqs[s].nproc = Len(procs)

Busy(a) ==
    \E q \in ProcIds : /\ procs[q].attempt = a
                       /\ procs[q].status = "Running"
                       /\ procs[q].ptype \in {"SetupScript", "CodingAgent", "Followup"}

\* C7: in every successful follow_up response created_new_attempt is true
\* exactly when actual_attempt_id differs from the requested attempt; the id
\* differs exactly when the requested attempt's worktree was irrecoverable,
\* and then it is the id of a new attempt whose parent is the requested one;
\* a Followup process of the returned attempt exists.
C7_FollowupResult ==
    \A s \in Slots :
        (reqs[s].kind = "followup" /\ reqs[s].pc = "done" /\ reqs[s].resp = "success")
        => /\ reqs[s].created <=> (reqs[s].actual # reqs[s].attempt)
           /\ (reqs[s].wtAtCall = "irrecoverable") <=> (reqs[s].actual # reqs[s].attempt)
           /\ reqs[s].actual \in AttemptIds
           /\ reqs[s].actual # reqs[s].attempt
                 => /\ attempts[reqs[s].actual].parent = reqs[s].attempt
                    /\ attempts[reqs[s].actual].task = reqs[s].task
           /\ \E q \in ProcIds : /\ procs[q].attempt = reqs[s].actual
                                 /\ procs[q].ptype = "Followup"

\* C7's cases: a follow-up ran in the requested attempt, whose worktree was
\* there or was restored, and another forked a new attempt.
C7_Witness ==
    /\ \E s \in Slots :
          /\ reqs[s].kind = "followup" /\ reqs[s].resp = "success"
          /\ reqs[s].created /\ reqs[s].wtAtCall = "irrecoverable"
    /\ \E s \in Slots :
          /\ reqs[s].kind = "followup" /\ reqs[s].resp = "success"
          /\ ~reqs[s].created /\ reqs[s].wtAtCall = "missing"

\* C8: a follow_up request launches its Followup process only in a step that
\* starts with the requested attempt in state Idle or MainFailed, so with no
\* SetupScript, CodingAgent or Followup process of it Running.
C8_FollowupOnlyWhenIdle ==
    [][\A s \in Slots :
          (/\ reqs[s].kind = "followup"
           /\ reqs[s].pc = "run"
           /\ reqs'[s] # reqs[s]
           /\ \/ procs' # procs
              \/ attempts' # attempts
              \/ reqs'[s].resp = "success")
          => /\ AttemptState(reqs[s].attempt) \in {"Idle", "MainFailed"}
             /\ ~Busy(reqs[s].attempt)]_vars

\* C8's case: a follow-up was requested while a process of the attempt was
\* Running, and was refused.
C8_Witness ==
    \E s \in Slots :
        /\ reqs[s].kind = "followup" /\ reqs[s].pc = "done"
        /\ reqs[s].resp = "INTERNAL_SERVER_ERROR"
        /\ reqs[s].stateAtCall \in {"SetupRunning", "MainRunning", "FollowupRunning"}

\* C9: a merge request whose merge step starts while the attempt is not Idle
\* (in particular while a process of it is Running) does not merge the
\* branch, answers failure, and never sets the task's status.
C9_MergeOnlyWhenIdle ==
    [][\A s \in Slots :
          /\ (/\ reqs[s].kind = "merge"
              /\ reqs[s].pc = "merge"
              /\ reqs'[s] # reqs[s]
              /\ (Busy(reqs[s].attempt) \/ AttemptState(reqs[s].attempt) # "Idle"))
             => /\ attempts' = attempts
                /\ tasks' = tasks
                /\ reqs'[s].pc = "done"
                /\ reqs'[s].resp = "failure"
          /\ (reqs[s].kind = "merge" /\ reqs[s].pc = "status")
             => reqs[s].stateAtCall = "Idle"]_vars

\* C9's case: a merge was requested while a process of the attempt was
\* Running, and was refused.
C9_Witness ==
    \E s \in Slots :
        /\ reqs[s].kind = "merge" /\ reqs[s].pc = "done"
        /\ reqs[s].resp = "failure"
        /\ ~attempts[reqs[s].attempt].merged
        /\ reqs[s].stateAtCall \in {"SetupRunning", "MainRunning", "FollowupRunning"}

\* The merge request called merge_changes and has returned.
MergeReturned(s) ==
    reqs[s].kind = "merge" /\ reqs[s].pc = "done" /\ reqs[s].stateAtCall # "none"

\* C10, as claimed: merge sets the task's status to Done if and only if the
\* underlying merge succeeded; a failed merge is answered by an envelope with
\* success=false.
C10_DoneIffMerged ==
    \A s \in Slots :
        MergeReturned(s)
        => /\ reqs[s].statusSet <=> reqs[s].merged
           /\ ~reqs[s].merged => reqs[s].resp = "failure"

\* C10, amended: merge sets the task's status to Done only if the underlying
\* merge succeeded, and does so unless the status update itself fails, which
\* is answered by an internal error with the task's status unchanged; a
\* failed merge is answered by an envelope with success=false and the task's
\* status unchanged.  No step of a merge request changes the task table
\* except the successful status update, which sets the request's task Done.
C10_MergeOutcome ==
    [][\A s \in Slots :
          (reqs'[s].kind = "merge" /\ reqs'[s] # reqs[s])
          => /\ MergeReturned(s)'
                => /\ reqs'[s].statusSet => reqs'[s].merged
                   /\ reqs'[s].resp = "success" <=> reqs'[s].statusSet
                   /\ reqs'[s].resp = "failure" <=> ~reqs'[s].merged
                   /\ reqs'[s].resp = "INTERNAL_SERVER_ERROR"
                         <=> (reqs'[s].merged /\ ~reqs'[s].statusSet)
                   /\ reqs'[s].merged => attempts'[reqs'[s].attempt].merged
             /\ IF reqs[s].pc = "status" /\ reqs'[s].resp = "success"
                THEN tasks' = [tasks EXCEPT ![reqs[s].task].status = "Done"]
                ELSE tasks' = tasks]_vars

\* C10's cases: one merge failed and left its task alone, another succeeded
\* and its task is Done.
C10_Witness ==
    /\ \E s \in Slots :
          /\ MergeReturned(s) /\ reqs[s].resp = "success"
          /\ tasks[reqs[s].task].status = "Done"
    /\ \E s \in Slots :
          /\ MergeReturned(s) /\ reqs[s].resp = "failure"
          /\ reqs[s].stateAtCall = "Idle"
          /\ tasks[reqs[s].task].status = "InProgress"

(***************************************************************************)
(* Plan approval.                                                          *)
(***************************************************************************)

ApproveSucceeded(s) == reqs[s].kind = "approve" /\ reqs[s].resp = "success"

\* C11: a successful approve_plan on attempt A of task T in project P has
\* created a task of P whose parent_task_attempt is A, whose title is
\* "Execute Plan: " followed by T's title and whose description is the
\* extracted plan; T is Done; the response carries the new task's id (one per
\* call) and created_new_attempt = true.
C11_ApproveResult ==
    \A s \in Slots :
        ApproveSucceeded(s) =>
            LET r == reqs[s] IN
            /\ r.actual \in DOMAIN tasks
            /\ r.actual # r.task
            /\ tasks[r.actual].project = r.project
            /\ tasks[r.task].project = r.project
            /\ attempts[r.attempt].task = r.task
            /\ tasks[r.actual].parent_task_attempt = r.attempt
            /\ tasks[r.actual].title = <<"Execute Plan: ">> \o tasks[r.task].title
            /\ r.plan # <<>>
            /\ tasks[r.actual].description = r.plan
            /\ tasks[r.task].status = "Done"
            /\ r.created
            /\ \A s2 \in Slots \ {s} : ApproveSucceeded(s2) => reqs[s2].actual # r.actual

C11_Witness == \E s \in Slots : ApproveSucceeded(s) /\ reqs[s].attempt = 1

\* C12: over the approve_plan calls on one attempt, the write of Done to the
\* original task's status happens once: no two calls have both written it.
C12_DoneWrittenOnce ==
    \A s1, s2 \in Slots :
        /\ reqs[s1].kind = "approve" /\ reqs[s1].statusSet
        /\ reqs[s2].kind = "approve" /\ reqs[s2].statusSet
        /\ reqs[s1].attempt = reqs[s2].attempt
        => s1 = s2

\* The processes of an attempt that ran the "claude-plan" executor and whose
\* normalized stdout holds a PlanPresentation entry.
PlanProcesses(a) ==
    {p \in ProcIds :
        /\ procs[p].attempt = a
        /\ output[p].executor_type = "claude-plan"
        /\ HasText(output[p].stdout)
        /\ ExecutorNormalizeLogs(output[p].stdout).ok
        /\ \E i \in 1..Len(output[p].stdout) :
              output[p].stdout[i].entry_type = "PlanPresentation"}

\* The last PlanPresentation of the most recently created of them.
SelectedPlan(a) ==
    IF PlanProcesses(a) = {} THEN <<>>
    ELSE LET e == ExecutorNormalizeLogs(output[Newest(PlanProcesses(a))].stdout).entries
             last == CHOOSE i \in 1..Len(e) :
                        /\ e[i].entry_type = "PlanPresentation"
                        /\ \A j \in (i + 1)..Len(e) : e[j].entry_type # "PlanPresentation"
         IN <<e[last].content>>

C14_PlanSelection ==
    \A s \in Slots :
        LET r == reqs[s] IN
        r.kind = "approve" /\ (r.pc \in {"create", "status"} \/ r.resp = "success") =>
            /\ r.plan # <<>>
            /\ r.plan = SelectedPlan(r.attempt)

\* A later planning process without a plan was skipped for an earlier one
\* with two plans, while the attempt of another task holds a third.
C14_Witness ==
    \E s \in Slots :
        /\ ApproveSucceeded(s) /\ reqs[s].attempt = 1
        /\ output[2].executor_type = "claude-plan" /\ PlanOf(output[2]) = <<>>
        /\ output[1].executor_type = "claude-plan" /\ Len(output[1].stdout) = 2
        /\ reqs[s].plan = <<"plan B">>

(***************************************************************************)
(* Path validation.                                                        *)
(***************************************************************************)

\* C17: a call given a (project, task, attempt) triple that does not fit
\* together does not succeed and returns no data.
C17_TripleValidated ==
    \A s \in Slots :
        LET r == reqs[s] IN
        /\ r.kind \in {"approve", "children"}
        /\ r.pc = "done"
        /\ ~ExistsForTask(r.attempt, r.task, r.project)
        => r.resp # "success" /\ r.data = <<>>

(***************************************************************************)
(* Creation.                                                               *)
(***************************************************************************)

\* C15: once create has inserted the attempt row and spawned the execution,
\* its response can be produced whatever the execution has or has not done;
\* the response is success with the attempt, it never changes afterwards,
\* and the attempt row stays whatever becomes of the execution.
C15_CreateDoesNotWait ==
    [][\A s \in Slots :
          reqs[s].kind = "create" =>
             /\ reqs[s].pc = "respond" => ENABLED CreateRespond(s)
             /\ reqs[s].pc = "respond" /\ reqs'[s] # reqs[s] =>
                   /\ reqs'[s].pc = "done"
                   /\ reqs'[s].resp = "success"
                   /\ reqs'[s].data = <<reqs[s].actual>>
             /\ reqs[s].pc = "done" => reqs'[s] = reqs[s]
             /\ reqs[s].actual # 0 =>
                   /\ reqs[s].actual \in 1..Len(attempts')
                   /\ attempts'[reqs[s].actual].task = reqs[s].task]_vars

\* The response is out and no step of the execution has run.
C15_Witness ==
    \E s \in Slots :
        /\ reqs[s].kind = "create" /\ reqs[s].resp = "success"
        /\ bg[reqs[s].actual].stage = "spawned"
        /\ attempts[reqs[s].actual].wt = "none"

\* C16: in the execution create started for an attempt, a CodingAgent process
\* exists only after provisioning and, if a setup script is configured, after
\* a setup process that exited zero; when the setup process exited non-zero
\* the attempt is in SetupFailed and has no CodingAgent process.
C16_SetupGatesMain ==
    \A a \in AttemptIds :
        bg[a].stage # "none" =>
            LET agents == {p \in ProcIds : procs[p].attempt = a /\ procs[p].ptype = "CodingAgent"}
                setups == {p \in ProcIds : procs[p].attempt = a /\ procs[p].ptype = "SetupScript"}
            IN /\ agents # {} =>
                     /\ attempts[a].wt = "present"
                     /\ bg[a].setup =>
                           \E q \in setups : /\ procs[q].status = "Completed"
                                             /\ \A p \in agents : q < p
               /\ ~bg[a].setup => setups = {}
               /\ (\E q \in setups : procs[q].status = "Failed") =>
                     /\ agents = {}
                     /\ AttemptState(a) = "SetupFailed"

\* The setup script exited non-zero and the execution has aborted.
C16_Witness ==
    \E a \in AttemptIds :
        /\ bg[a].stage = "failed" /\ bg[a].setup
        /\ bg[a].proc \in ProcIds
        /\ procs[bg[a].proc].status = "Failed"
        /\ AttemptState(a) = "SetupFailed"

(***************************************************************************)
(* Logs.                                                                   *)
(***************************************************************************)

LogsReturned(s) == reqs[s].kind = "logs" /\ reqs[s].resp = "success"

\* C18: in every conversation get_logs returns, every entry without a
\* timestamp precedes every entry with one.
C18_NoneFirst ==
    \A s \in Slots :
        LogsReturned(s) =>
            \A k \in 1..Len(reqs[s].data) :
                LET e == reqs[s].data[k].normalized_conversation.entries IN
                \A i, j \in 1..Len(e) :
                    i < j => ~(e[i].timestamp # <<>> /\ e[j].timestamp = <<>>)

\* Two entries the ordering does not tell apart.
SameKey(a, b) == a.timestamp = b.timestamp

\* out is ins rearranged so that entries of the same key keep their order.
KeepsInsertionOrder(out, ins) ==
    /\ Len(out) = Len(ins)
    /\ \E pi \in [1..Len(out) -> 1..Len(ins)] :
          /\ \A i, j \in 1..Len(out) : i # j => pi[i] # pi[j]
          /\ \A i \in 1..Len(out) : out[i] = ins[pi[i]]
          /\ \A i, j \in 1..Len(out) : i < j /\ SameKey(out[i], out[j]) => pi[i] < pi[j]

\* C19: in every conversation get_logs returns, timestamped entries are in
\* non-decreasing order of timestamp, and entries of equal timestamp, or both
\* without one, keep their insertion order: the entries of stdout in their
\* order, then those of stderr in theirs.
C19_AscendingStable ==
    \A s \in Slots :
        LogsReturned(s) =>
            \A k \in 1..Len(reqs[s].data) :
                LET e == reqs[s].data[k].normalized_conversation.entries
                    o == output[reqs[s].data[k].id]
                    inserted == StdoutEntries(o.stdout)
                                   \o StderrEntries(o.stderr, reqs[s].nows)
                IN /\ \A i, j \in 1..Len(e) :
                         i < j /\ e[i].timestamp # <<>> /\ e[j].timestamp # <<>>
                            => e[i].timestamp[1] <= e[j].timestamp[1]
                   /\ \A i, j \in 1..Len(e) :
                         i < j /\ SameKey(e[i], e[j])
                            => ~(e[i].entry_type = "ErrorMessage" /\ e[j].entry_type # "ErrorMessage")
                   /\ e # <<>> => KeepsInsertionOrder(e, inserted)

\* Two messages of stdout and a chunk of stderr, all of one timestamp, in
\* their insertion order behind an earlier chunk of stderr.
C19_Witness ==
    \E s \in Slots :
        /\ LogsReturned(s)
        /\ Len(reqs[s].data) = 1
        /\ LET e == reqs[s].data[1].normalized_conversation.entries IN
           /\ Len(e) = 4
           /\ e[1].entry_type = "ErrorMessage" /\ e[1].timestamp = <<1>>
           /\ e[2].content = <<"m">> /\ e[3].content = <<"n">>
           /\ e[4].entry_type = "ErrorMessage"
           /\ \A i \in 2..4 : e[i].timestamp = <<2>>

\* C20: two normalizations of the same process rows give the same
\* conversations.
C20_Deterministic ==
    \A s1, s2 \in Slots :
        /\ LogsReturned(s1) /\ LogsReturned(s2)
        /\ reqs[s1].attempt = reqs[s2].attempt
        => reqs[s1].data = reqs[s2].data

\* The ErrorMessage entries of a conversation, in its order.
IsErrorMessage(e) == e.entry_type = "ErrorMessage"

ErrorMessages(conversation) == SelectSeq(conversation.entries, IsErrorMessage)

\* The marker occurs in str.
ContainsBoundary(str) == \E i \in 1..Len(str) : MatchesAt(str, i)

\* str is empty or white space only.
IsBlank(str) == \A i \in 1..Len(str) : str[i] = " "

\* C22: whatever stderr a process has persisted, markers consecutive,
\* leading, trailing or overlapping included, no ErrorMessage entry of a
\* conversation get_logs returns contains the marker and none is blank.
C22_NoMarkerNoBlank ==
    \A s \in Slots :
        LogsReturned(s) =>
            \A k \in 1..Len(reqs[s].data) :
                \A i \in 1..Len(ErrorMessages(reqs[s].data[k].normalized_conversation)) :
                    LET content == ErrorMessages(reqs[s].data[k].normalized_conversation)[i].content IN
                    ~ContainsBoundary(content) /\ ~IsBlank(content)

\* Two overlapping markers: the first is a boundary, what is left of the
\* second is the text of the one entry.
C22_Witness ==
    \E s \in Slots :
        /\ LogsReturned(s)
        /\ Len(reqs[s].data) = 1
        /\ output[reqs[s].data[1].id].stderr = <<"-", "X", "-", "X", "-">>
        /\ Len(reqs[s].data[1].normalized_conversation.entries) = 1
        /\ reqs[s].data[1].normalized_conversation.entries[1].content = <<"X", "-">>

IsNotBlank(str) == ~IsBlank(str)

\* The chunks of a persisted stderr that have content: the pieces between
\* the markers that are not blank, trimmed, in their order.
ChunkTexts(stderr) ==
    LET pieces == SelectSeq(Split(stderr), IsNotBlank)
    IN [k \in 1..Len(pieces) |-> Trim(pieces[k])]

\* The clock readings a call took do not go back.
ClockAdvances(nows) == \A i, j \in 1..Len(nows) : i < j => nows[i] <= nows[j]

\* C21: whatever the executor type and the stdout of a process, its
\* conversation in what get_logs returns has one ErrorMessage entry for
\* every stderr chunk with content, in the order of the chunks, each with a
\* timestamp and the trimmed text of its chunk (the clock not going back
\* during the call).
C21_StderrSurfaces ==
    \A s \in Slots :
        LogsReturned(s) /\ ClockAdvances(reqs[s].nows) =>
            \A k \in 1..Len(reqs[s].data) :
                LET errors == ErrorMessages(reqs[s].data[k].normalized_conversation)
                    texts == ChunkTexts(output[reqs[s].data[k].id].stderr)
                IN /\ Len(errors) = Len(texts)
                   /\ \A i \in 1..Len(errors) :
                         errors[i].timestamp # <<>> /\ errors[i].content = texts[i]

\* Request s is a rebase whose call of rebase_attempt returns in this step.
RebaseReturns(s) ==
    reqs[s].kind = "rebase" /\ reqs[s].pc = "rebase" /\ reqs'[s].pc = "done"

\* C23: a rebase that fails is answered by an envelope with success false
\* and a message, never an error status; it leaves the attempt's rows as
\* they were, the base branch included even if a new one was supplied, and
\* the attempt in the state it had (Idle); and a base branch changes only
\* in a rebase that succeeds and was given the new base.
C23_RebaseFailure ==
    [][
        /\ \A s \in Slots :
             RebaseReturns(s) /\ reqs'[s].error # <<>> =>
                /\ reqs'[s].resp = "failure"
                /\ reqs'[s].message # <<>>
                /\ attempts' = attempts
                /\ AttemptState(reqs[s].attempt)' = AttemptState(reqs[s].attempt)
        /\ \A a \in AttemptIds :
             attempts'[a].base_branch # attempts[a].base_branch =>
                \E s \in Slots :
                    /\ RebaseReturns(s)
                    /\ reqs[s].attempt = a
                    /\ reqs'[s].resp = "success"
                    /\ reqs'[s].input = <<attempts'[a].base_branch>>
    ]_vars

\* A rebase of the idle attempt onto a new base has failed with a conflict:
\* the base branch is the old one.
C23_Witness ==
    \E s \in Slots :
        /\ reqs[s].kind = "rebase" /\ reqs[s].pc = "done"
        /\ reqs[s].resp = "failure"
        /\ reqs[s].error = <<"RebaseConflict">>
        /\ reqs[s].input = <<"develop">>
        /\ reqs[s].stateAtCall = "Idle"
        /\ AttemptState(reqs[s].attempt) = "Idle"
        /\ attempts[reqs[s].attempt].base_branch = "main"

\* C24: a PR request that finds no GitHub token in the configuration it
\* loaded ends with an envelope with success false and a message, not an
\* error status, and the PR-creation service was never called for it.
C24_NoTokenNoService ==
    \A s \in Slots :
        /\ reqs[s].kind = "pr"
        /\ reqs[s].config # <<>>
        /\ reqs[s].config[1].token = <<>>
        => /\ reqs[s].pc = "done"
           /\ reqs[s].resp = "failure"
           /\ reqs[s].message # <<>>
           /\ reqs[s].called = <<>>

\* The configuration holds a personal access token and no token.
C24_Witness ==
    \E s \in Slots :
        /\ reqs[s].kind = "pr" /\ reqs[s].pc = "done"
        /\ reqs[s].config # <<>>
        /\ reqs[s].config[1].token = <<>>
        /\ reqs[s].config[1].pat # <<>>
        /\ reqs[s].resp = "failure"
        /\ reqs[s].called = <<>>

\* The PR-creation service was called for request s and gave an error.
PrFailed(s) ==
    reqs[s].kind = "pr" /\ reqs[s].pc = "done" /\ reqs[s].error # <<>>

GitErrorContains(e, phrase) ==
    e.variant = "GitService::Git" /\ phrase \in e.contains

\* C25: every failure of the PR-creation service is answered by an envelope
\* with success false, never an error status; its message is
\* github_token_invalid for an invalid token, insufficient_github_permissions
\* for a git error that mentions authentication replays or status code 403,
\* github_repo_not_found_or_no_access for a git error that mentions status
\* code 404 (and neither of the former), and otherwise begins with
\* "Failed to create PR".
C25_FailureMapping ==
    \A s \in Slots :
        PrFailed(s) =>
            LET e == reqs[s].error[1]
                denied == \/ GitErrorContains(e, "too many redirects or authentication replays")
                          \/ GitErrorContains(e, "status code: 403")
            IN /\ reqs[s].resp = "failure"
               /\ reqs[s].called # <<>>
               /\ IF e.variant = "GitHubService::TokenInvalid"
                  THEN reqs[s].message = <<"github_token_invalid">>
                  ELSE IF denied
                  THEN reqs[s].message = <<"insufficient_github_permissions">>
                  ELSE IF GitErrorContains(e, "status code: 404")
                  THEN reqs[s].message = <<"github_repo_not_found_or_no_access">>
                  ELSE reqs[s].message[1] = "Failed to create PR: "

\* A git error of status code 404 and an error that is not a git error but
\* mentions status code 403 have both been answered.
C25_Witness ==
    \E s1, s2 \in Slots :
        /\ PrFailed(s1) /\ PrFailed(s2)
        /\ reqs[s1].error[1] = [variant |-> "GitService::Git", contains |-> {"status code: 404"}]
        /\ reqs[s1].message = <<"github_repo_not_found_or_no_access">>
        /\ reqs[s2].error[1] = [variant |-> "GitHubService::Other", contains |-> {"status code: 403"}]
        /\ reqs[s2].message[1] = "Failed to create PR: "

\* get_execution_process has answered request s from what its lookups found.
GetProcessAnswered(s) ==
    reqs[s].kind = "process" /\ reqs[s].pc = "done" /\ ~reqs[s].storeFailed

\* The process, its attempt and the attempt's task exist, and the task is
\* the project's.
ProcessInProject(id, project) ==
    /\ id \in ProcIds
    /\ procs[id].attempt \in AttemptIds
    /\ attempts[procs[id].attempt].task \in DOMAIN tasks
    /\ tasks[attempts[procs[id].attempt].task].project = project

\* C26: get_process answers with the process exactly when the process, its
\* attempt and the attempt's task exist and the task is the given project's;
\* in every other case the answer is NotFound and carries no process data.
C26_ProcessOwnership ==
    \A s \in Slots :
        GetProcessAnswered(s) =>
            IF ProcessInProject(reqs[s].proc, reqs[s].project)
            THEN /\ reqs[s].resp = "success"
                 /\ reqs[s].data = <<[attempt |-> procs[reqs[s].proc].attempt,
                                      ptype |-> procs[reqs[s].proc].ptype,
                                      status |-> procs[reqs[s].proc].status]>>
            ELSE reqs[s].resp = "NOT_FOUND" /\ reqs[s].data = <<>>

\* The second project's process was asked for under the first project and
\* under its own.
C26_Witness ==
    \E s1, s2 \in Slots :
        /\ GetProcessAnswered(s1) /\ GetProcessAnswered(s2)
        /\ reqs[s1].proc = 2 /\ reqs[s1].project = 1 /\ reqs[s1].resp = "NOT_FOUND"
        /\ reqs[s2].proc = 2 /\ reqs[s2].project = 2 /\ reqs[s2].resp = "success"

\* open_in_editor has spawned a command for request s.
EditorSpawned(s) ==
    reqs[s].kind = "editor" /\ reqs[s].pc = "done" /\ reqs[s].called # <<>>

\* The editor type a request names, if it is one of the six.
NamedEditor(payload) ==
    IF payload = <<>> \/ payload[1].editor_type = <<>> THEN <<>>
    ELSE LET e == payload[1].editor_type[1] IN
         IF e = "vscode" THEN <<"VSCode">>
         ELSE IF e = "cursor" THEN <<"Cursor">>
         ELSE IF e = "windsurf" THEN <<"Windsurf">>
         ELSE IF e = "intellij" THEN <<"IntelliJ">>
         ELSE IF e = "zed" THEN <<"Zed">>
         ELSE IF e = "custom" THEN <<"Custom">>
         ELSE <<>>

\* C27: the command open_in_editor spawns is that of the editor the request
\* names when it names one of vscode, cursor, windsurf, intellij, zed and
\* custom, and that of the configured editor type otherwise (no body, no
\* editor_type, or another value); the custom command is the configured one
\* in either case, and the attempt's worktree path is the last argument.
C27_EditorResolution ==
    \A s \in Slots :
        EditorSpawned(s) =>
            LET cmd == reqs[s].called[1]
                config == reqs[s].config[1]
                named == NamedEditor(reqs[s].input)
                editor == IF named # <<>> THEN named[1] ELSE config.editor_type
            IN /\ cmd[Len(cmd)] = WorktreePath(reqs[s].attempt)
               /\ SubSeq(cmd, 1, Len(cmd) - 1) =
                     GetCommand([editor_type |-> editor,
                                 custom_command |-> config.custom_command])

\* A request names custom while Zed is configured, and another names
\* VSCode in capitals while Zed is configured: the first spawns the
\* configured custom command, the second Zed.
C27_Witness ==
    \E s1, s2 \in Slots :
        /\ EditorSpawned(s1) /\ EditorSpawned(s2)
        /\ reqs[s1].input = <<[editor_type |-> <<"custom">>]>>
        /\ reqs[s1].config[1] = [editor_type |-> "Zed", custom_command |-> <<"nvim -p">>]
        /\ reqs[s1].called[1] = <<"nvim", "-p", WorktreePath(reqs[s1].attempt)>>
        /\ reqs[s2].input = <<[editor_type |-> <<"VSCode">>]>>
        /\ reqs[s2].config[1].editor_type = "Zed"
        /\ reqs[s2].called[1] = <<"zed", WorktreePath(reqs[s2].attempt)>>

\* Request s is a stop that arrives in this step and has its process looked
\* up.
StopArrives(s) ==
    reqs[s].pc = "idle" /\ reqs'[s].kind = "stop" /\ ~reqs'[s].storeFailed

\* Request s is a stop that takes a step.
StopMoves(s) == reqs[s].kind = "stop" /\ reqs'[s] # reqs[s]

\* C28: a stop for a process that does not exist or is another attempt's
\* returns NotFound, and neither a kill nor a row change comes with it; a
\* stop whose process is not running (kill finds no live handle) returns
\* success and changes no row; and a stop changes a row only after its kill
\* was delivered, and then only the row of its process, to Killed.
C28_StopScope ==
    [][
        \A s \in Slots :
            /\ StopArrives(s)
                /\ ~(reqs'[s].proc \in ProcIds /\ procs[reqs'[s].proc].attempt = reqs'[s].attempt)
                => /\ reqs'[s].pc = "done" /\ reqs'[s].resp = "NOT_FOUND"
                   /\ reqs'[s].killTrue + reqs'[s].killFalse + reqs'[s].killErr = 0
                   /\ procs' = procs /\ handles' = handles
            /\ StopMoves(s) /\ reqs'[s].killFalse > reqs[s].killFalse
                => /\ reqs'[s].pc = "done" /\ reqs'[s].resp = "success"
                   /\ procs' = procs
            /\ StopMoves(s) /\ procs' # procs
                => /\ reqs[s].killed = {reqs[s].proc}
                   /\ procs[reqs[s].proc].attempt = reqs[s].attempt
                   /\ procs'[reqs[s].proc].status = "Killed"
                   /\ \A q \in ProcIds : q # reqs[s].proc => procs'[q] = procs[q]
    ]_vars

\* A stop named a process of another attempt and got NotFound, and a stop
\* of a process that had exited got success; both processes' rows are not
\* Killed.
C28_Witness ==
    \E s1, s2 \in Slots :
        /\ reqs[s1].kind = "stop" /\ reqs[s1].pc = "done"
        /\ ~reqs[s1].storeFailed
        /\ reqs[s1].proc \in ProcIds
        /\ procs[reqs[s1].proc].attempt # reqs[s1].attempt
        /\ reqs[s1].resp = "NOT_FOUND"
        /\ procs[reqs[s1].proc].status # "Killed"
        /\ reqs[s2].kind = "stop" /\ reqs[s2].pc = "done"
        /\ reqs[s2].killFalse = 1 /\ reqs[s2].resp = "success"
        /\ procs[reqs[s2].proc].status # "Killed"

\* The stop and stop_all requests that count process p as stopped: their
\* kill of p returned true.
Stoppers(p) ==
    {s \in Slots : reqs[s].kind \in {"stop", "stop_all"} /\ p \in reqs[s].killed}

RECURSIVE StoppedSum(_, _)
\* The stopped counts of the stop_all requests on attempt a among the first
\* n slots, added up.
StoppedSum(a, n) ==
    IF n = 0 THEN 0
    ELSE StoppedSum(a, n - 1)
            + (IF reqs[n].kind = "stop_all" /\ reqs[n].attempt = a
               THEN reqs[n].stopped_count ELSE 0)

CreateArrives(s) ==
    reqs[s].pc = "idle" /\ reqs'[s].kind = "create" /\ ~reqs'[s].storeFailed

\* Request s is a create whose insert of the attempt row fails in this step.
CreateInsertFails(s) ==
    reqs[s].kind = "create" /\ reqs[s].pc = "insert" /\ reqs'[s].pc = "done"

\* C30: a create for a task that is not in the given project returns
\* NotFound, and a create whose insert fails returns an internal error; in
\* both the call inserts no attempt row and starts no background execution,
\* then or later: a background execution starts only for the row a create
\* has inserted.
C30_CreateFailures ==
    [][
        /\ \A s \in Slots :
              /\ CreateArrives(s)
                  /\ ~(reqs'[s].task \in DOMAIN tasks
                         /\ tasks[reqs'[s].task].project = reqs'[s].project)
                  => /\ reqs'[s].pc = "done" /\ reqs'[s].resp = "NOT_FOUND"
                     /\ attempts' = attempts /\ bg' = bg
              /\ CreateInsertFails(s)
                  => /\ reqs'[s].resp = "INTERNAL_SERVER_ERROR"
                     /\ attempts' = attempts /\ bg' = bg
              /\ reqs[s].kind = "create" /\ reqs[s].pc = "done"
                    /\ reqs[s].resp \in {"NOT_FOUND", "INTERNAL_SERVER_ERROR"}
                  => reqs[s].actual = 0 /\ reqs'[s] = reqs[s]
        /\ \A a \in 1..MaxAttempts :
              bg[a].stage = "none" /\ bg'[a].stage # "none"
                  => \E s \in Slots :
                        /\ reqs[s].kind = "create" /\ reqs[s].actual = a
                        /\ reqs[s].pc = "spawn" /\ reqs'[s].pc = "respond"
        /\ Len(attempts') # Len(attempts)
              => \E s \in Slots :
                    /\ reqs[s].kind = "create" /\ reqs[s].pc = "insert"
                    /\ reqs'[s].actual = Len(attempts')
    ]_vars

\* One create named a task of another project and got NotFound, another's
\* insert failed: no row was added and no execution is pending.
C30_Witness ==
    \E s1, s2 \in Slots :
        /\ reqs[s1].kind = "create" /\ reqs[s1].resp = "NOT_FOUND"
        /\ tasks[reqs[s1].task].project # reqs[s1].project
        /\ reqs[s2].kind = "create" /\ reqs[s2].resp = "INTERNAL_SERVER_ERROR"
        /\ ~reqs[s2].storeFailed
        /\ Len(attempts) = 2
        /\ \A a \in 1..MaxAttempts : bg[a].stage = "none"

\* The PR-creation service was called for request s.
PrCalled(s) == reqs[s].kind = "pr" /\ reqs[s].called # <<>>

\* C31: the base branch handed to PR creation is the request's base_branch
\* when it has one; otherwise the attempt's stored base_branch when that is
\* not blank; otherwise the configured default PR base; otherwise "main".
C31_BaseBranch ==
    \A s \in Slots :
        PrCalled(s) =>
            LET stored == attempts[reqs[s].attempt].base_branch
                default == reqs[s].config[1].default_pr_base
                base == reqs[s].called[1].base_branch
            IN IF reqs[s].input # <<>> THEN base = reqs[s].input[1]
               ELSE IF stored \notin {"", " "} THEN base = stored
               ELSE IF default # <<>> THEN base = default[1]
               ELSE base = "main"

\* The attempt's stored base branch is blank: one request without a base
\* branch went out with the configured default, another, with none
\* configured, with "main".
C31_Witness ==
    \E s1, s2 \in Slots :
        /\ PrCalled(s1) /\ PrCalled(s2)
        /\ reqs[s1].input = <<>> /\ reqs[s2].input = <<>>
        /\ attempts[reqs[s1].attempt].base_branch = " "
        /\ attempts[reqs[s2].attempt].base_branch = " "
        /\ reqs[s1].config[1].default_pr_base = <<"release">>
        /\ reqs[s1].called[1].base_branch = "release"
        /\ reqs[s2].config[1].default_pr_base = <<>>
        /\ reqs[s2].called[1].base_branch = "main"

\* C36: PR creation hands the service the configured PAT when there is one
\* and the OAuth token otherwise, and it goes on to the service whenever the
\* configuration it loaded holds at least one of the two.
C36_Credential ==
    \A s \in Slots :
        /\ PrCalled(s) =>
              reqs[s].called[1].github_token =
                 (IF reqs[s].config[1].pat # <<>> THEN reqs[s].config[1].pat[1]
                  ELSE reqs[s].config[1].token[1])
        /\ /\ reqs[s].kind = "pr" /\ reqs[s].pc = "done"
           /\ reqs[s].config # <<>>
           /\ reqs[s].config[1].pat # <<>> \/ reqs[s].config[1].token # <<>>
           => reqs[s].message # <<"GitHub authentication not configured. Please sign in with GitHub.">>

\* C32: get_logs returns one item for every process of the attempt and no
\* other, in ascending order of creation, each with that process's own id,
\* type, command, executor type and status; a process whose stdout and
\* stderr are blank is listed too, with no entries.
C32_OneItemPerProcess ==
    \A s \in Slots :
        LogsReturned(s) =>
            LET data == reqs[s].data
                own == {p \in ProcIds : procs[p].attempt = reqs[s].attempt}
            IN /\ Len(data) = Cardinality(own)
               /\ \A k \in 1..Len(data) : data[k].id \in own
               /\ \A i, j \in 1..Len(data) : i < j => data[i].id < data[j].id
               /\ \A k \in 1..Len(data) :
                     LET p == data[k].id IN
                     /\ data[k].process_type = procs[p].ptype
                     /\ data[k].command = CommandOf(p)
                     /\ data[k].executor_type = output[p].executor_type
                     /\ data[k].status = procs[p].status
                     /\ ~HasText(output[p].stdout) /\ IsBlank(output[p].stderr)
                           => data[k].normalized_conversation.entries = <<>>

\* The attempt's setup script wrote white space only and is listed first,
\* without entries, before the coding agent, which has entries.
C32_Witness ==
    \E s \in Slots :
        /\ LogsReturned(s)
        /\ Len(reqs[s].data) = 2
        /\ reqs[s].data[1].id = 1 /\ reqs[s].data[2].id = 3
        /\ output[1].stderr = <<" ">>
        /\ reqs[s].data[1].process_type = "SetupScript"
        /\ reqs[s].data[1].status = "Completed"
        /\ reqs[s].data[1].normalized_conversation.entries = <<>>
        /\ reqs[s].data[2].normalized_conversation.entries # <<>>

\* Request s is a start_dev_server whose kill of an enumerated dev server
\* returns in this step.
DevKillReturns(s) ==
    /\ reqs[s].kind = "dev" /\ reqs[s].pc = "kill"
    /\ reqs'[s].killTrue + reqs'[s].killFalse + reqs'[s].killErr
          > reqs[s].killTrue + reqs[s].killFalse + reqs[s].killErr

\* C33: in start_dev_server, a kill of an enumerated dev server that does
\* not return an error, be it true or false (no live handle), is followed by
\* update_completion(Killed) for that dev server; a kill that returns an
\* error is followed by no update, the rows stay as they are, and the call
\* goes on to the next dev server and then to the launch, which it answers
\* with an envelope.
C33_DevPreemption ==
    [][
        \A s \in Slots :
            /\ DevKillReturns(s) /\ reqs'[s].killErr = reqs[s].killErr
                => /\ reqs'[s].pc = "upd"
                   /\ reqs'[s].list = reqs[s].list /\ reqs'[s].i = reqs[s].i
            /\ DevKillReturns(s) /\ reqs'[s].killErr > reqs[s].killErr
                => /\ reqs'[s].pc \in {"kill", "spawn"}
                   /\ reqs'[s].pc = "kill" => reqs'[s].i = reqs[s].i + 1
                   /\ procs' = procs
            /\ reqs[s].kind = "dev" /\ reqs[s].pc = "upd" /\ reqs'[s].pc # "upd"
                => /\ reqs'[s].pc \in {"kill", "spawn"}
                   /\ \A q \in ProcIds : q # reqs[s].list[reqs[s].i] => procs'[q] = procs[q]
                   /\ procs'[reqs[s].list[reqs[s].i]].status
                         \in {procs[reqs[s].list[reqs[s].i]].status, "Killed"}
            /\ reqs[s].kind = "dev" /\ reqs[s].pc = "spawn" /\ reqs'[s].pc # "spawn"
                => reqs'[s].pc = "done" /\ reqs'[s].resp \in {"success", "failure"}
    ]_vars

\* A dev server that had exited unnoticed, its row still Running, was
\* enumerated: its kill found no live handle, its row was marked Killed all
\* the same, and the new dev server was launched.
C33_Witness ==
    \E s \in Slots :
        /\ reqs[s].kind = "dev" /\ reqs[s].pc = "done"
        /\ reqs[s].killFalse = 1 /\ reqs[s].killTrue = 0 /\ reqs[s].killErr = 0
        /\ reqs[s].wrote
        /\ reqs[s].resp = "success"

\* Process q is signalled or its row modified in this step.
Touched(q) == procs'[q] # procs[q] \/ (q \in handles /\ q \notin handles')

\* Request s is a stop_all that calls kill or update_completion in this step.
StopAllActs(s) ==
    reqs[s].kind = "stop_all" /\ reqs[s].pc \in {"kill", "upd"} /\ reqs'[s] # reqs[s]

\* Request s is a start_dev_server that calls kill or update_completion on
\* an enumerated dev server in this step.
DevPreempts(s) ==
    /\ reqs[s].kind = "dev" /\ reqs[s].pc \in {"kill", "upd"}
    /\ reqs'[s].pc # reqs[s].pc \/ reqs'[s].i # reqs[s].i

\* Process q is a dev server of project p.
DevServerOf(q, p) ==
    /\ procs[q].ptype = "DevServer"
    /\ tasks[attempts[procs[q].attempt].task].project = p

\* C34: stop_all calls kill and update_completion only for processes of its
\* attempt and touches no other process; start_dev_server enumerates only
\* Running DevServer processes of its project, calls kill and
\* update_completion only for those, and its pre-emption touches no other
\* process.
C34_Frame ==
    [][
        \A s \in Slots :
            /\ StopAllActs(s)
                => /\ procs[reqs[s].list[reqs[s].i]].attempt = reqs[s].attempt
                   /\ \A q \in ProcIds : Touched(q) => q = reqs[s].list[reqs[s].i]
            /\ reqs[s].kind = "dev" /\ reqs[s].pc = "enum"
                => \A k \in 1..Len(reqs'[s].list) :
                      /\ DevServerOf(reqs'[s].list[k], reqs[s].project)
                      /\ procs[reqs'[s].list[k]].status = "Running"
            /\ DevPreempts(s)
                => /\ DevServerOf(reqs[s].list[reqs[s].i], reqs[s].project)
                   /\ \A q \in ProcIds : Touched(q) => q = reqs[s].list[reqs[s].i]
    ]_vars

\* A start_dev_server of the first project and a stop_all of its attempt
\* have ended, each having stopped a process; the second project's dev
\* server is Running and has its handle.
C34_Witness ==
    \E s1, s2 \in Slots :
        /\ reqs[s1].kind = "dev" /\ reqs[s1].pc = "done" /\ reqs[s1].project = 1
        /\ reqs[s1].killed = {3}
        /\ reqs[s2].kind = "stop_all" /\ reqs[s2].pc = "done" /\ reqs[s2].attempt = 1
        /\ reqs[s2].killed = {1}
        /\ procs[2].status = "Running" /\ 2 \in handles

\* approve_plan has answered request s.
ApproveAnswered(s) == reqs[s].kind = "approve" /\ reqs[s].pc = "done"

\* C35: when approve_plan returns success, the call has created one child
\* task, which descends from the attempt, and the original task is Done; and
\* when it returns an error status, no task created by the call exists.
C35_ApproveAllOrNothing ==
    \A s \in Slots :
        ApproveAnswered(s) =>
            /\ reqs[s].resp = "success" =>
                  /\ reqs[s].actual \in DOMAIN tasks
                  /\ tasks[reqs[s].actual].parent_task_attempt = reqs[s].attempt
                  /\ tasks[reqs[s].task].status = "Done"
            /\ reqs[s].resp \in {"NOT_FOUND", "INTERNAL_SERVER_ERROR"} =>
                  reqs[s].actual = 0

\* get_models has answered request s.
ModelsAnswered(s) == reqs[s].kind = "models" /\ reqs[s].pc = "done"

\* sub is what remains of seq when some of its elements are left out.
RECURSIVE IsSubsequence(_, _)
IsSubsequence(sub, seq) ==
    IF sub = <<>> THEN TRUE
    ELSE IF seq = <<>> THEN FALSE
    ELSE IF Head(sub) = Head(seq) THEN IsSubsequence(Tail(sub), Tail(seq))
    ELSE IsSubsequence(sub, Tail(seq))

\* C37: the list-models endpoint always answers with an envelope, never an
\* error status: success is true exactly when the command ran and exited
\* successfully, and then data is the lines of its output, trimmed, in their
\* order, without the blank ones; otherwise success is false, data is
\* absent and there is a message.
C37_ModelsEnvelope ==
    \A s \in Slots :
        ModelsAnswered(s) =>
            LET out == reqs[s].input[1]
                trimmed == [k \in 1..Len(Lines(out.stdout)) |-> Trim(Lines(out.stdout)[k])]
            IN /\ reqs[s].resp \in {"success", "failure"}
               /\ reqs[s].resp = "success" <=> (out.ran /\ out.success)
               /\ reqs[s].resp = "success" =>
                     /\ Len(reqs[s].data) = 1
                     /\ \A k \in 1..Len(reqs[s].data[1]) : ~IsBlank(reqs[s].data[1][k])
                     /\ IsSubsequence(reqs[s].data[1], trimmed)
                     /\ Len(reqs[s].data[1])
                           = Cardinality({k \in 1..Len(trimmed) : ~IsBlank(trimmed[k])})
               /\ reqs[s].resp = "failure" =>
                     reqs[s].data = <<>> /\ reqs[s].message # <<>>

\* The command wrote a line with spaces around its text, a blank line and
\* a second line: the two texts are the data; and a command that exited
\* unsuccessfully was answered without data.
C37_Witness ==
    \E s1, s2 \in Slots :
        /\ ModelsAnswered(s1) /\ ModelsAnswered(s2)
        /\ reqs[s1].input[1].stdout = <<" ", "a", "\n", "b">>
        /\ reqs[s1].data = << <<(<<"a">>), (<<"b">>)>> >>
        /\ reqs[s2].input[1].ran /\ ~reqs[s2].input[1].success
        /\ reqs[s2].resp = "failure" /\ reqs[s2].data = <<>>

====
